---- MODULE Spec2Model ----
(***************************************************************************)
(* A model of moeryomenko/squad: a group of tasks that go up and down      *)
(* together (Squad.RunGracefully), the blocking Squad.Wait, and the        *)
(* time-bounded shutdown phase (Squad.shutdown, callTimeout).              *)
(*                                                                         *)
(* Goroutines are modelled by their position (taskPc, waitPc, wrapPc,      *)
(* fnPc); user supplied functions (tasks, shutdown functions) return when  *)
(* the environment decides.  Time is discrete: Tick advances the clock of  *)
(* the shutdown context by one unit and is taken only when no goroutine of *)
(* the library has a step to take (computation takes no time, user         *)
(* functions take as long as they like).                                   *)
(***************************************************************************)
EXTENDS Integers, Sequences, FiniteSets

\* ------------------------------------------------------------------ bounds
MaxTasks == 2       \* RunGracefully calls in one behaviour
MaxWaits == 2       \* Wait calls in one behaviour
MaxTimeout == 2     \* the largest configured shutdown timeout, in ticks

MaxBoots == 2       \* the bootstrap functions given to New
MaxSignals == 2     \* signals sent to the process in one behaviour
MaxReceivers == 2   \* goroutines receiving from Done() of a delayed context

Tasks == 1..MaxTasks
Timeouts == 0..MaxTimeout
Boots == 1..MaxBoots
Receivers == 1..MaxReceivers

\* The keys a context is asked for, and what it holds for a key.
Keys == {"k1", "k2"}
Values == {"nil", "v"}

\* --------------------------------------------------------------- constants
defaultContextGracePeriod == 30     \* seconds; one tick is one second
defaultCancellationDelay == 2
SafetyMargin == 5                   \* the 5*time.Second of startSignalHandler
NilFn == 0                          \* the nil function value

\* The termination signals the documentation lists.
Signals == {"SIGINT", "SIGTERM", "SIGHUP", "SIGQUIT"}

\* ------------------------------------------------------------ error values
\* An error is the sequence of the leaf errors it enumerates; nil is << >>.
\* A leaf names the site that produced it, so that a lost error is visible.
Nil == << >>
TaskErr(t) == <<"task", t>>                 \* the error a task returned
DownErr(f) == <<"down", f>>                 \* the error a shutdown function returned
PanicErr(t) == <<"panic", t>>               \* the error made of a task's panic
BootErr(b) == <<"boot", b>>                 \* the error a bootstrap function returned
ServerErr == <<"server", 0>>                \* the error srv.Shutdown returned
DeadlineExceeded(f) == <<"deadline", f>>    \* context.DeadlineExceeded seen by f's wrapper
Canceled(f) == <<"canceled", f>>            \* context.Canceled seen by f's wrapper

\* What a user function returns: nil or an error of its own.
Returns == {"nil", "E"}

\* The Go value of a leaf, without the site that produced it: every user
\* function that fails returns the same error value E.
ErrorValue(leaf) == IF leaf[1] \in {"task", "down", "boot", "server"} THEN "E" ELSE leaf[1]

\* A join that keeps one leaf per error value.
JoinDistinct(a, b) ==
    LET New(x) == \A i \in 1..Len(a) : ErrorValue(a[i]) # ErrorValue(x)
    IN a \o SelectSeq(b, New)

\* errors.Join(a, b): nil arguments are discarded, all others are kept in order.
Join(a, b) == a \o b

Leaves(e) == {e[i] : i \in 1..Len(e)}

\* How many times an error enumerates a leaf.
Count(e, leaf) == Cardinality({i \in 1..Len(e) : e[i] = leaf})

\* How many of the failures an error enumerates carry the error value v.
CountValue(e, v) == Cardinality({i \in 1..Len(e) : ErrorValue(e[i]) = v})

VARIABLES
    ctxDone,            \* s.ctx is canceled
    cancellationDelay,  \* s.cancellationDelay, the shutdown timeout
    cancellationFuncs,  \* s.cancellationFuncs, in registration order
    err,                \* s.err
    wg,                 \* the task group's counter of running goroutines
    mtx,                \* holder of the mutex guarding errs, 0 when free
    errs,               \* the task errors the group collected
    taskPc,             \* position of each task goroutine
    taskRes,            \* what the task function returned
    tmp,                \* appendErr: the slice read before the append
    waitPc,             \* position of the goroutine inside Wait
    waitCalls,          \* number of Wait calls so far
    waitResult,         \* what the last Wait returned
    atWait,             \* the tasks registered when Wait was last called
    sdCtx,              \* the shutdown context: none, active, expired, canceled
    sdTimer,            \* ticks left before the shutdown context expires
    sgCount,            \* the shutdown group's counter of running goroutines
    sgErrs,             \* the errors the shutdown group collected
    wrapPc,             \* position of each shutdown function's wrapper
    wrapRes,            \* what the wrapper returned to the group
    fnPc,               \* position of each shutdown function's own goroutine
    ch,                 \* what was sent on callTimeout's channel of each function
    fnWhen,             \* when the function returned, relative to the expiry
    invoked,            \* how many times each shutdown function was called
    newPc,              \* position of the goroutine inside New
    newErr,             \* the error New returned
    bootPc,             \* position of each bootstrap function's goroutine
    bootRes,            \* what the bootstrap function returned
    bootCtxDone,        \* bootstrapCtx, the context of the bootstrap group, is canceled
    bootErr,            \* the bootstrap group's first error
    proc,               \* the process: running, exit1 (os.Exit(1)), killed
    notify,             \* the signals the process has subscribed to
    sigChan,            \* the signals buffered in sigChan
    sigCount,           \* number of signals sent to the process so far
    hPc,                \* position of startSignalHandler's goroutine
    hTimer,             \* ticks left before the handler's time.After fires
    hWaited,            \* ticks the handler has spent in its second select
    gracefulPeriod,     \* shutdown.gracefulPeriod of WithSignalHandler
    shutdownTimeout,    \* shutdown.shutdownTimeout of WithSignalHandler
    serverContext,      \* s.serverContext is canceled
    hsPc,               \* position of handleSignals' goroutine
    hsTimer,            \* ticks left before handleSignals' time.After fires
    hsWaited,           \* ticks handleSignals has spent in its time.After
    kind,               \* how each task was registered: task, server, consumer
    srvPc,              \* position of RunServer's shutdown goroutine
    srvErr,             \* what srv.Shutdown returned
    srvTmp,             \* appendErr of that goroutine: s.err as read before the join
    waitTmp,            \* Wait: s.err as read before the join
    regPc,              \* position of each concurrent caller of RunGracefully
    regTmp,             \* RunGracefully: the slice read before the append
    parentErr,          \* Err() of the parent of the delayed context
    parentDeadline,     \* Deadline() of the parent, -1 when it has none
    parentTimer,        \* ticks left before the parent's deadline
    parentValue,        \* Value(key) of the parent
    dDelay,             \* the delay given to WithDelay
    dPc,                \* position of WithDelay's goroutine
    dTimer,             \* ticks left of its time.Sleep
    dWaited,            \* ticks passed since the parent was done
    dCh,                \* the channel of the delayed context: open, closed
    rcvPc,              \* position of each goroutine receiving from Done()
    gParentDone,        \* the context given to NewSquad is canceled
    isCanceled,         \* gracefulContext.isCanceled
    gPc,                \* position of the call of the graceful context's cancel
    gPeriod,            \* the graceful period given to WithGracefulPeriod
    gTimer,             \* ticks left before cancel's time.After fires
    gWaited,            \* ticks passed since cancel was called
    lsPc,               \* position of NewSquad's background listener
    bootstraps          \* s.bootstraps, in the order the options gave them

newVars == <<newPc, newErr, bootPc, bootRes, bootCtxDone, bootErr>>
sigVars == <<notify, sigChan, sigCount, hPc, hTimer, hWaited>>
hsVars == <<gracefulPeriod, shutdownTimeout, serverContext, hsPc, hsTimer,
           hsWaited>>
srvVars == <<kind, srvPc, srvErr, srvTmp, waitTmp>>
regVars == <<regPc, regTmp>>
delayVars == <<parentErr, parentDeadline, parentTimer, parentValue,
              dDelay, dPc, dTimer, dWaited, dCh, rcvPc>>
graceVars == <<gParentDone, isCanceled, gPc, gPeriod, gTimer, gWaited, lsPc>>
optVars == <<bootstraps>>
libVars == <<srvVars, regVars, delayVars, graceVars, optVars>>
procVars == <<proc, newVars, sigVars, hsVars, libVars>>

vars == <<ctxDone, cancellationDelay, cancellationFuncs, err, wg, mtx, errs,
          taskPc, taskRes, tmp, waitPc, waitCalls, waitResult, atWait,
          sdCtx, sdTimer, sgCount, sgErrs, wrapPc, wrapRes, fnPc, ch, fnWhen,
          invoked, procVars>>

taskVars == <<wg, mtx, errs, taskPc, taskRes, tmp>>
waitVars == <<waitPc, waitCalls, waitResult, atWait>>
sdVars == <<sdCtx, sdTimer, sgCount, sgErrs, wrapPc, wrapRes, fnPc, ch, fnWhen, invoked>>

\* ------------------------------------------------------------------- Init
\* A Squad as New makes it: no task yet, the root context live, the shutdown
\* timeout as configured.
Fresh ==
    /\ ctxDone = FALSE
    /\ cancellationDelay \in Timeouts
    /\ cancellationFuncs = << >>
    /\ err = Nil
    /\ wg = 0
    /\ mtx = 0
    /\ errs = Nil
    /\ taskPc = [t \in Tasks |-> "unreg"]
    /\ taskRes = [t \in Tasks |-> "nil"]
    /\ tmp = [t \in Tasks |-> Nil]
    /\ waitPc = "idle"
    /\ waitCalls = 0
    /\ waitResult = Nil
    /\ atWait = {}
    /\ sdCtx = "none"
    /\ sdTimer = -1
    /\ sgCount = 0
    /\ sgErrs = Nil
    /\ wrapPc = [f \in Tasks |-> "none"]
    /\ wrapRes = [f \in Tasks |-> Nil]
    /\ fnPc = [f \in Tasks |-> "none"]
    /\ ch = [f \in Tasks |-> "empty"]
    /\ fnWhen = [f \in Tasks |-> "none"]
    /\ invoked = [f \in Tasks |-> 0]

\* No bootstrap function was given.
NoBootstrap ==
    /\ newErr = Nil
    /\ bootPc = [b \in Boots |-> "none"]
    /\ bootRes = [b \in Boots |-> "none"]
    /\ bootCtxDone = FALSE
    /\ bootErr = Nil

\* No signal was sent to the process yet.
NoSignal ==
    /\ proc = "running"
    /\ sigChan = << >>
    /\ sigCount = 0

\* startSignalHandler was not called.
NoHandler ==
    /\ notify = {}
    /\ hPc = "none"
    /\ hTimer = -1
    /\ hWaited = 0

\* The option WithSignalHandler was not given.
NoSignalOption ==
    /\ gracefulPeriod = defaultContextGracePeriod
    /\ shutdownTimeout = defaultCancellationDelay
    /\ serverContext = FALSE
    /\ hsPc = "none"
    /\ hsTimer = -1
    /\ hsWaited = 0

\* No server was registered, and nobody else writes s.err.
NoServer ==
    /\ kind = [t \in Tasks |-> "task"]
    /\ srvPc = "none"
    /\ srvErr = "none"
    /\ srvTmp = Nil
    /\ waitTmp = Nil

\* RunGracefully is not called concurrently.
NoConcurrent ==
    /\ regPc = [t \in Tasks |-> "idle"]
    /\ regTmp = [t \in Tasks |-> << >>]

\* WithDelay was not called.
NoDelayed ==
    /\ parentErr = "nil"
    /\ parentDeadline = -1
    /\ parentTimer = -1
    /\ parentValue = [k \in Keys |-> "nil"]
    /\ dDelay = 0
    /\ dPc = "none"
    /\ dTimer = -1
    /\ dWaited = 0
    /\ dCh = "open"
    /\ rcvPc = [r \in Receivers |-> "idle"]

\* No graceful context and no background listener: the Squad was not made
\* by NewSquad.
NoGraceful ==
    /\ gParentDone = FALSE
    /\ isCanceled = FALSE
    /\ gPc = "none"
    /\ gPeriod = 0
    /\ gTimer = -1
    /\ gWaited = 0
    /\ lsPc = "none"

\* No option has put a function in s.bootstraps.
NoOptions == bootstraps = << >>

\* The state after New(opts...) returned a Squad that has no bootstrap
\* function and no signal handler.
Init ==
    /\ Fresh
    /\ NoServer
    /\ NoConcurrent
    /\ NoDelayed
    /\ NoGraceful
    /\ NoOptions
    /\ newPc = "returned"
    /\ NoBootstrap
    /\ NoSignal
    /\ NoHandler
    /\ NoSignalOption

\* The process runs: nothing has terminated it.
Alive == proc = "running"

\* New has returned a Squad to its caller.
Constructed == newPc = "returned"

Registered == {t \in Tasks : taskPc[t] # "unreg"}
Running == {t \in Tasks : taskPc[t] = "running"}
Returned == {t \in Tasks : taskPc[t] \in {"append", "store", "defer", "done"}}
Finished == {t \in Tasks : taskPc[t] = "done"}
Funcs == {cancellationFuncs[i] : i \in 1..Len(cancellationFuncs)}

\* ---------------------------------------------------------- RunGracefully
\* The caller is the goroutine that goes on to call Wait, or a task that is
\* still running: Wait is not called yet, or it is blocked on a running task.
CanRegister ==
    \/ waitPc = "idle"
    \/ waitPc = "wgWait" /\ Running # {}

\* RunGracefully(backgroudFn, onDown); Run(fn) is RunGracefully(fn, nil).
RunGracefully(t, onDown) ==
    /\ CanRegister
    /\ taskPc[t] = "unreg"
    /\ \A u \in Tasks : u < t => taskPc[u] # "unreg"
    /\ cancellationFuncs' = IF onDown THEN Append(cancellationFuncs, t)
                                      ELSE cancellationFuncs
    /\ wg' = wg + 1
    /\ taskPc' = [taskPc EXCEPT ![t] = "running"]
    /\ UNCHANGED <<ctxDone, cancellationDelay, err, mtx, errs, taskRes, tmp>>
    /\ UNCHANGED waitVars
    /\ UNCHANGED sdVars
    /\ Constructed
    /\ Alive
    /\ UNCHANGED procVars

\* ------------------------------------------------------- a task goroutine
\* What the function of a task may return now.  srv.ListenAndServe, the
\* function of a server task, fails on its own or returns http.ErrServerClosed
\* (nil for the task) once srv.Shutdown was called; any other function
\* returns what it likes.
MayReturn(t, r) ==
    kind[t] = "server" => (IF srvPc = "waitCtx" THEN r = "E" ELSE r = "nil")

\* backgroudFn(s.ctx) returns; the goroutine goes on to appendErr when the
\* result is not nil and to its deferred calls otherwise.  A task may return
\* at any time, before or after the root context is canceled.
TaskReturn(t, r) ==
    /\ taskPc[t] = "running"
    /\ MayReturn(t, r)
    /\ taskRes' = [taskRes EXCEPT ![t] = r]
    /\ taskPc' = [taskPc EXCEPT ![t] = IF r = "nil" THEN "defer" ELSE "append"]
    /\ UNCHANGED <<ctxDone, cancellationDelay, cancellationFuncs, err, wg, mtx, errs, tmp>>
    /\ UNCHANGED waitVars
    /\ UNCHANGED sdVars
    /\ Alive
    /\ UNCHANGED procVars

\* appendErr without its mutex.
LockIgnored(m) == TRUE

\* s.mtx.Lock() succeeds when nobody holds the mutex.
LockFree(m) == m = 0

\* appendErr, first half: take the mutex and read s.errs.
AppendLock(t) ==
    /\ taskPc[t] = "append"
    /\ LockFree(mtx)
    /\ mtx' = t
    /\ tmp' = [tmp EXCEPT ![t] = errs]
    /\ taskPc' = [taskPc EXCEPT ![t] = "store"]
    /\ UNCHANGED <<ctxDone, cancellationDelay, cancellationFuncs, err, wg, errs, taskRes>>
    /\ UNCHANGED waitVars
    /\ UNCHANGED sdVars
    /\ Alive
    /\ UNCHANGED procVars

\* The error of a task that failed: the one it returned, or the one its
\* panic was converted to.
TaskFailure(t) == IF taskRes[t] = "panic" THEN PanicErr(t) ELSE TaskErr(t)

\* appendErr, second half: store the appended slice and release the mutex.
AppendStore(t) ==
    /\ taskPc[t] = "store"
    /\ errs' = Append(tmp[t], TaskFailure(t))
    /\ tmp' = [tmp EXCEPT ![t] = Nil]
    /\ mtx' = 0
    /\ taskPc' = [taskPc EXCEPT ![t] = "defer"]
    /\ UNCHANGED <<ctxDone, cancellationDelay, cancellationFuncs, err, wg, taskRes>>
    /\ UNCHANGED waitVars
    /\ UNCHANGED sdVars
    /\ Alive
    /\ UNCHANGED procVars

\* A deferred block that forgets s.cancel().
cancelForgotten(done) == done

\* s.cancel(): the root context is canceled from now on (cancel is idempotent).
cancel(done) == TRUE

\* The deferred calls of the goroutine: s.cancel() and s.wg.Done().
TaskDefer(t) ==
    /\ taskPc[t] = "defer"
    /\ ctxDone' = cancel(ctxDone)
    /\ wg' = wg - 1
    /\ taskPc' = [taskPc EXCEPT ![t] = "done"]
    /\ UNCHANGED <<cancellationDelay, cancellationFuncs, err, mtx, errs, taskRes, tmp>>
    /\ UNCHANGED waitVars
    /\ UNCHANGED sdVars
    /\ Alive
    /\ UNCHANGED procVars

\* ------------------------------------------------------------------- Wait
\* Entering Wait: the goroutine blocks in s.wg.Wait().  What the shutdown of
\* a former Wait left behind (its context, group, channels) is garbage.
EnterWait ==
    /\ waitPc' = "wgWait"
    /\ waitCalls' = waitCalls + 1
    /\ atWait' = Registered
    /\ sdCtx' = "none"
    /\ sdTimer' = -1
    /\ sgCount' = 0
    /\ sgErrs' = Nil
    /\ wrapPc' = [f \in Tasks |-> "none"]
    /\ wrapRes' = [f \in Tasks |-> Nil]
    /\ fnPc' = [f \in Tasks |-> "none"]
    /\ ch' = [f \in Tasks |-> "empty"]
    /\ fnWhen' = [f \in Tasks |-> "none"]
    /\ UNCHANGED <<ctxDone, cancellationDelay, cancellationFuncs, err, waitResult, invoked>>
    /\ UNCHANGED taskVars
    /\ Constructed
    /\ Alive
    /\ UNCHANGED procVars

\* Wait() is called, as the single blocking call of the program.
WaitCall ==
    /\ waitPc = "idle"
    /\ EnterWait

\* Wait() is called again after it returned.
WaitAgain ==
    /\ waitPc = "returned"
    /\ waitCalls < MaxWaits
    /\ EnterWait

\* A Wait that does not block on the group.
WgNotWaited(n) == TRUE

\* A Wait that returns while one goroutine of the group is still running.
WgOffByOne(n) == n <= 1

\* s.wg.Wait() returns when the counter of the group is zero.
WgZero(n) == n = 0

\* err := s.wg.Wait(); if err != nil { s.err = errors.Join(s.err, err) }
WgWait ==
    /\ waitPc = "wgWait"
    /\ WgZero(wg)
    /\ err' = Join(err, errs)
    /\ waitPc' = "shutdown"
    /\ UNCHANGED <<ctxDone, cancellationDelay, cancellationFuncs, waitCalls, waitResult, atWait>>
    /\ UNCHANGED taskVars
    /\ UNCHANGED sdVars
    /\ Alive
    /\ UNCHANGED procVars

\* --------------------------------------------------------------- shutdown
\* A shutdown context derived from s.ctx itself.
WithParentCancel(parentDone) == parentDone

\* context.WithoutCancel(s.ctx): the derived context is not canceled with
\* its parent.
WithoutCancel(parentDone) == FALSE

\* context.WithTimeout(parent, d): canceled with its parent, expired at once
\* when d <= 0, live otherwise.
WithTimeout(parentDone, d) ==
    IF parentDone THEN "canceled" ELSE IF d <= 0 THEN "expired" ELSE "active"

\* A shutdown that goes through its whole body whatever is registered.
NeverEmpty(fns) == FALSE

\* len(s.cancellationFuncs) == 0
NoFuncs(fns) == Len(fns) = 0

\* shutdown() with no function registered returns nil, and Wait returns s.err.
ShutdownSkip ==
    /\ waitPc = "shutdown"
    /\ NoFuncs(cancellationFuncs)
    /\ waitResult' = err
    /\ waitPc' = "returned"
    /\ UNCHANGED <<ctxDone, cancellationDelay, cancellationFuncs, err, waitCalls, atWait>>
    /\ UNCHANGED taskVars
    /\ UNCHANGED sdVars
    /\ Alive
    /\ UNCHANGED procVars

\* shutdown(): the context bounded by the shutdown timeout, the group, and
\* one group.Go per registered function.
ShutdownStart ==
    /\ waitPc = "shutdown"
    /\ ~NoFuncs(cancellationFuncs)
    /\ sdCtx' = WithTimeout(WithoutCancel(ctxDone), cancellationDelay)
    /\ sdTimer' = cancellationDelay
    /\ sgCount' = Len(cancellationFuncs)
    /\ sgErrs' = Nil
    /\ wrapPc' = [f \in Tasks |-> IF f \in Funcs THEN "start" ELSE "none"]
    /\ wrapRes' = [f \in Tasks |-> Nil]
    /\ fnPc' = [f \in Tasks |-> "none"]
    /\ ch' = [f \in Tasks |-> "empty"]
    /\ fnWhen' = [f \in Tasks |-> "none"]
    /\ waitPc' = "groupWait"
    /\ UNCHANGED <<ctxDone, cancellationDelay, cancellationFuncs, err, waitCalls,
                   waitResult, atWait, invoked>>
    /\ UNCHANGED taskVars
    /\ Alive
    /\ UNCHANGED procVars

\* The select of f's wrapper evaluates callTimeout(ctx, cancelFn): the
\* channel is made and the goroutine calling cancelFn(ctx) is started.
callTimeout(f) ==
    /\ wrapPc[f] = "start"
    /\ wrapPc' = [wrapPc EXCEPT ![f] = "select"]
    /\ fnPc' = [fnPc EXCEPT ![f] = "running"]
    /\ invoked' = [invoked EXCEPT ![f] = @ + 1]
    /\ UNCHANGED <<ctxDone, cancellationDelay, cancellationFuncs, err,
                   sdCtx, sdTimer, sgCount, sgErrs, wrapRes, ch, fnWhen>>
    /\ UNCHANGED taskVars
    /\ UNCHANGED waitVars
    /\ Alive
    /\ UNCHANGED procVars

\* When a shutdown function returns, relative to the expiry of the shutdown
\* context: before it, or at the very instant of it.  (A function that is
\* still running after that instant has been abandoned, see GroupWait.)
When == IF sdTimer > 0 THEN "before" ELSE "at"

\* ch <- fn(ctx): the shutdown function returns r and its goroutine puts the
\* result in the buffered channel.  It may return at any time, or never.
FnReturn(f, r) ==
    /\ fnPc[f] = "running"
    /\ fnPc' = [fnPc EXCEPT ![f] = "finished"]
    /\ ch' = [ch EXCEPT ![f] = r]
    /\ fnWhen' = [fnWhen EXCEPT ![f] = When]
    /\ UNCHANGED <<ctxDone, cancellationDelay, cancellationFuncs, err,
                   sdCtx, sdTimer, sgCount, sgErrs, wrapPc, wrapRes, invoked>>
    /\ UNCHANGED taskVars
    /\ UNCHANGED waitVars
    /\ Alive
    /\ UNCHANGED procVars

\* A wrapper that does not watch the shutdown context.
SdIgnored == FALSE

\* A shutdown context that the failure of one function cancels for all.
SdDoneOnFailure == sdCtx \in {"expired", "canceled"} \/ sgErrs # Nil

\* ctx.Done() of the shutdown context is closed.
SdDone == sdCtx \in {"expired", "canceled"}

\* A wrapper that returns silently when the context is done.
CtxErrDropped(f) == Nil

\* A wrapper that reports the deadline and the function's error as well.
CtxErrAndResult(f) == <<DeadlineExceeded(f), DownErr(f)>>

\* ctx.Err() of the shutdown context, as f's wrapper returns it.
CtxErr(f) == IF sdCtx = "expired" THEN <<DeadlineExceeded(f)>> ELSE <<Canceled(f)>>

\* A wrapper that receives the result and returns nil.
ChanErrDropped(f) == Nil

\* The error received from f's channel.
ChanErr(f) == IF ch[f] = "nil" THEN Nil ELSE <<DownErr(f)>>

\* The group takes what a wrapper returned: non-nil errors are all kept.
GroupCollect(e) ==
    /\ sgErrs' = Join(sgErrs, e)
    /\ sgCount' = sgCount - 1

\* select, case <-ctx.Done(): return ctx.Err()
SelectDone(f) ==
    /\ wrapPc[f] = "select"
    /\ SdDone
    /\ wrapRes' = [wrapRes EXCEPT ![f] = CtxErr(f)]
    /\ GroupCollect(CtxErr(f))
    /\ wrapPc' = [wrapPc EXCEPT ![f] = "done"]
    /\ UNCHANGED <<ctxDone, cancellationDelay, cancellationFuncs, err,
                   sdCtx, sdTimer, fnPc, ch, fnWhen, invoked>>
    /\ UNCHANGED taskVars
    /\ UNCHANGED waitVars
    /\ Alive
    /\ UNCHANGED procVars

\* select, case err := <-callTimeout(ctx, cancelFn): return err
SelectResult(f) ==
    /\ wrapPc[f] = "select"
    /\ ch[f] # "empty"
    /\ wrapRes' = [wrapRes EXCEPT ![f] = ChanErr(f)]
    /\ GroupCollect(ChanErr(f))
    /\ wrapPc' = [wrapPc EXCEPT ![f] = "done"]
    /\ UNCHANGED <<ctxDone, cancellationDelay, cancellationFuncs, err,
                   sdCtx, sdTimer, fnPc, ch, fnWhen, invoked>>
    /\ UNCHANGED taskVars
    /\ UNCHANGED waitVars
    /\ Alive
    /\ UNCHANGED procVars

\* The timer of the shutdown context fires: the context is done with
\* context.DeadlineExceeded.
TimerFire ==
    /\ sdCtx = "active"
    /\ sdTimer <= 0
    /\ sdCtx' = "expired"
    /\ UNCHANGED <<ctxDone, cancellationDelay, cancellationFuncs, err,
                   sdTimer, sgCount, sgErrs, wrapPc, wrapRes, fnPc, ch, fnWhen, invoked>>
    /\ UNCHANGED taskVars
    /\ UNCHANGED waitVars
    /\ Alive
    /\ UNCHANGED procVars

\* return group.Wait(), with the deferred cancel() of the shutdown context
\* (its timer is stopped); then Wait joins the error into s.err and returns
\* s.err.  A function still running is abandoned: its goroutine goes on, but
\* nobody receives from its channel any more.
GroupWait ==
    /\ waitPc = "groupWait"
    /\ sgCount = 0
    /\ sdCtx' = IF sdCtx = "active" THEN "canceled" ELSE sdCtx
    /\ sdTimer' = -1
    /\ fnPc' = [f \in Tasks |-> IF fnPc[f] = "running" THEN "abandoned" ELSE fnPc[f]]
    /\ err' = Join(err, sgErrs)
    /\ waitResult' = Join(err, sgErrs)
    /\ waitPc' = "returned"
    /\ UNCHANGED <<ctxDone, cancellationDelay, cancellationFuncs, waitCalls, atWait,
                   sgCount, sgErrs, wrapPc, wrapRes, ch, fnWhen, invoked>>
    /\ UNCHANGED taskVars
    /\ Alive
    /\ UNCHANGED procVars

\* A shutdown goroutine that watches the root context.
ServerWatchesRoot == ctxDone

\* <-ctx.Done() of the shutdown goroutine of RunServer, whose ctx is s.serverContext.
ServerCtxDone == serverContext

\* ------------------------------------------------------------------- time
\* Some goroutine of the library has a step to take now.
Busy ==
    \/ \E t \in Tasks : taskPc[t] \in {"append", "store", "defer"}
    \/ waitPc = "wgWait" /\ wg = 0
    \/ waitPc = "shutdown"
    \/ waitPc = "groupWait" /\ sgCount = 0
    \/ \E f \in Tasks : wrapPc[f] = "start"
    \/ \E f \in Tasks : wrapPc[f] = "select" /\ (SdDone \/ ch[f] # "empty")
    \/ sdCtx = "active" /\ sdTimer <= 0
    \/ waitPc = "wgJoin"
    \/ \E t \in Tasks : regPc[t] = "read"
    \/ srvPc = "waitCtx" /\ ServerCtxDone
    \/ srvPc \in {"append", "store"}
    \/ newPc = "onStart" /\ \A b \in Boots : bootPc[b] # "running"
    \/ hPc = "armed" /\ (sigChan # << >> \/ ctxDone)
    \/ hPc = "waiting" /\ (sigChan # << >> \/ hTimer <= 0)
    \/ hsPc = "listening" /\ serverContext
    \/ hsPc = "delaying" /\ hsTimer <= 0
    \/ waitPc = "groupWait" /\ NilFn \in Funcs

\* The timer of the shutdown context is counting: one that has run out stays
\* at 0 for the instant of the expiry and is then past.
SdTimerRuns == sdCtx \in {"active", "expired"} /\ sdTimer >= 0

\* The time.After of startSignalHandler's second select is counting.
HTimerRuns == hPc = "waiting" /\ hTimer > 0

\* The time.After of handleSignals is counting.
HsTimerRuns == hsPc = "delaying" /\ hsTimer > 0

\* One unit of time passes for every timer that is counting.
Tick ==
    /\ Alive
    /\ ~Busy
    /\ SdTimerRuns \/ HTimerRuns \/ HsTimerRuns
    /\ sdTimer' = IF SdTimerRuns THEN sdTimer - 1 ELSE sdTimer
    /\ hTimer' = IF HTimerRuns THEN hTimer - 1 ELSE hTimer
    /\ hWaited' = IF HTimerRuns THEN hWaited + 1 ELSE hWaited
    /\ hsTimer' = IF HsTimerRuns THEN hsTimer - 1 ELSE hsTimer
    /\ hsWaited' = IF HsTimerRuns THEN hsWaited + 1 ELSE hsWaited
    /\ UNCHANGED <<ctxDone, cancellationDelay, cancellationFuncs, err,
                   sdCtx, sgCount, sgErrs, wrapPc, wrapRes, fnPc, ch, fnWhen, invoked>>
    /\ UNCHANGED taskVars
    /\ UNCHANGED waitVars
    /\ UNCHANGED <<proc, newVars, notify, sigChan, sigCount, hPc>>
    /\ UNCHANGED <<gracefulPeriod, shutdownTimeout, serverContext, hsPc>>
    /\ UNCHANGED libVars

\* ------------------------------------------------------------------- Next
Next ==
    \/ \E t \in Tasks, onDown \in BOOLEAN : RunGracefully(t, onDown)
    \/ \E t \in Tasks, r \in Returns : TaskReturn(t, r)
    \/ \E t \in Tasks : AppendLock(t)
    \/ \E t \in Tasks : AppendStore(t)
    \/ \E t \in Tasks : TaskDefer(t)
    \/ WaitCall
    \/ WgWait
    \/ ShutdownSkip
    \/ ShutdownStart
    \/ \E f \in Tasks : callTimeout(f)
    \/ \E f \in Tasks, r \in Returns : FnReturn(f, r)
    \/ \E f \in Tasks : SelectDone(f)
    \/ \E f \in Tasks : SelectResult(f)
    \/ TimerFire
    \/ GroupWait
    \/ Tick

Spec == Init /\ [][Next]_vars

\* The program that calls Wait more than once.
NextRewait == Next \/ WaitAgain

SpecRewait == Init /\ [][NextRewait]_vars

\* The steps the Go scheduler and the runtime's timers take on their own:
\* every goroutine of the library that can run does run, and time passes.
\* The functions of the user (TaskReturn, FnReturn) and the calls of the
\* caller (RunGracefully, WaitCall) are under no obligation.
Fairness ==
    /\ \A t \in Tasks : WF_vars(AppendLock(t))
    /\ \A t \in Tasks : WF_vars(AppendStore(t))
    /\ \A t \in Tasks : WF_vars(TaskDefer(t))
    /\ WF_vars(WgWait)
    /\ WF_vars(ShutdownSkip)
    /\ WF_vars(ShutdownStart)
    /\ \A f \in Tasks : WF_vars(callTimeout(f))
    /\ \A f \in Tasks : WF_vars(SelectDone(f) \/ SelectResult(f))
    /\ WF_vars(TimerFire)
    /\ WF_vars(GroupWait)
    /\ WF_vars(Tick)

FairSpec == Spec /\ Fairness

\* ============================================================= the process
coreVars == <<cancellationDelay, cancellationFuncs, err, taskVars, waitVars, sdVars>>

\* -------------------------------------------------------- New and onStart
\* g.errOnce.Do: the group keeps the first error it is given.
FirstError(old, e) == IF old = Nil THEN e ELSE old

\* bootstrapCtx is derived from the root context and canceled by the group.
BootstrapCtxDone == bootCtxDone \/ ctxDone

\* A bootstrap function returns r; on an error the group records it, if it
\* is the first, and cancels bootstrapCtx.
BootReturn(b, r) ==
    /\ Alive
    /\ bootPc[b] = "running"
    /\ bootPc' = [bootPc EXCEPT ![b] = "done"]
    /\ bootRes' = [bootRes EXCEPT ![b] = r]
    /\ bootErr' = IF r = "E" THEN FirstError(bootErr, <<BootErr(b)>>) ELSE bootErr
    /\ bootCtxDone' = (bootCtxDone \/ r = "E")
    /\ UNCHANGED <<ctxDone, coreVars, proc, newPc, newErr, sigVars, hsVars>>
    /\ UNCHANGED libVars

\* An onStart that loses the error of its group.
GroupErrDropped == Nil

\* err := group.Wait(), once every bootstrap function has returned.
GroupErr == bootErr

\* onStart returns the error of the group and New returns (nil, err).
NewFail ==
    /\ Alive
    /\ newPc = "onStart"
    /\ \A b \in Boots : bootPc[b] # "running"
    /\ GroupErr # Nil
    /\ newPc' = "failed"
    /\ newErr' = GroupErr
    /\ UNCHANGED <<ctxDone, coreVars, proc, bootPc, bootRes, bootCtxDone, bootErr,
                   sigVars, hsVars>>
    /\ UNCHANGED libVars

\* onStart returns nil and New returns (squad, nil).
NewReturn ==
    /\ Alive
    /\ newPc = "onStart"
    /\ \A b \in Boots : bootPc[b] # "running"
    /\ GroupErr = Nil
    /\ newPc' = "returned"
    /\ bootCtxDone' = \E b \in Boots : bootPc[b] = "done"
    /\ UNCHANGED <<ctxDone, coreVars, proc, newErr, bootPc, bootRes, bootErr,
                   sigVars, hsVars>>
    /\ UNCHANGED libVars

\* ------------------------------------------------------ startSignalHandler
\* signal.Notify(sigChan, os.Interrupt, SIGINT, SIGTERM, SIGHUP); os.Interrupt
\* is SIGINT.
Notified == {"SIGINT", "SIGTERM", "SIGHUP"}

\* sigChan := make(chan os.Signal, 1)
SigChanCap == 1

\* The operating system sends a signal to the process.  A signal the process
\* subscribed to is handed to the subscriber: put in sigChan when there is
\* room and dropped otherwise, or it cancels the context of NotifyContext.
\* Any other one keeps its default disposition and terminates the process.
Signal(sig) ==
    /\ Alive
    /\ sigCount < MaxSignals
    /\ sigCount' = sigCount + 1
    /\ sigChan' = IF sig \in notify /\ hPc # "none" /\ Len(sigChan) < SigChanCap
                  THEN Append(sigChan, sig) ELSE sigChan
    /\ serverContext' = (serverContext \/ (sig \in notify /\ hsPc # "none"))
    /\ proc' = IF sig \in notify THEN proc ELSE "killed"
    /\ UNCHANGED <<ctxDone, coreVars, newVars, notify, hPc, hTimer, hWaited,
                   gracefulPeriod, shutdownTimeout, hsPc, hsTimer, hsWaited>>
    /\ UNCHANGED libVars

\* A handler that gives up at once.
GiveUpAtOnce(timeout) == 0

\* time.After(s.shutdownGracefulTimeout + 5*time.Second)
GiveUpAfter(timeout) == timeout + SafetyMargin

\* A receive that leaves the signal in the channel.
chanPeek(q) == q

\* <-sigChan: the first signal buffered is taken out of the channel.
chanRecv(q) == Tail(q)

\* First select, case <-sigChan: s.cancel(); the handler goes on to its
\* second select, whose timer starts.
HandlerSignal ==
    /\ Alive
    /\ hPc = "armed"
    /\ sigChan # << >>
    /\ sigChan' = chanRecv(sigChan)
    /\ ctxDone' = cancel(ctxDone)
    /\ hPc' = "waiting"
    /\ hTimer' = GiveUpAfter(cancellationDelay)
    /\ hWaited' = 0
    /\ UNCHANGED <<coreVars, proc, newVars, notify, sigCount, hsVars>>
    /\ UNCHANGED libVars

\* A deferred block that leaves the subscription in place.
signalStopForgotten(subscribed) == subscribed

\* defer signal.Stop(sigChan)
signalStop(subscribed) == {}

\* A handler whose first select goes on to the second when the root context
\* is done.
DoneFallsThrough == "waiting"

\* case <-s.ctx.Done(): return
DoneBranch == "returned"

\* First select, case <-s.ctx.Done(): the handler returns.
HandlerCtxDone ==
    /\ Alive
    /\ hPc = "armed"
    /\ ctxDone
    /\ hPc' = DoneBranch
    /\ notify' = signalStop(notify)
    /\ UNCHANGED <<ctxDone, coreVars, proc, newVars, sigChan, sigCount, hTimer, hWaited,
                   hsVars>>
    /\ UNCHANGED libVars

\* A handler that ignores the second signal.
osExitSkipped == "running"

\* os.Exit(1)
osExit == "exit1"

\* Second select, case <-sigChan: os.Exit(1).
HandlerExit ==
    /\ Alive
    /\ hPc = "waiting"
    /\ sigChan # << >>
    /\ sigChan' = chanRecv(sigChan)
    /\ proc' = osExit
    /\ UNCHANGED <<ctxDone, coreVars, newVars, notify, sigCount, hPc, hTimer, hWaited,
                   hsVars>>
    /\ UNCHANGED libVars

\* Second select, case <-time.After(...): the handler gives up and returns.
HandlerTimeout ==
    /\ Alive
    /\ hPc = "waiting"
    /\ hTimer <= 0
    /\ hPc' = "gaveUp"
    /\ hTimer' = -1
    /\ notify' = signalStop(notify)
    /\ UNCHANGED <<ctxDone, coreVars, proc, newVars, sigChan, sigCount, hWaited, hsVars>>
    /\ UNCHANGED libVars

\* The state inside New after startSignalHandler() and the group.Go calls
\* of onStart: the handler is armed, the bootstrap functions run.
InitNew ==
    /\ Fresh
    /\ NoServer
    /\ NoConcurrent
    /\ NoDelayed
    /\ NoGraceful
    /\ NoOptions
    /\ newPc = "onStart"
    /\ newErr = Nil
    /\ bootPc = [b \in Boots |-> "running"]
    /\ bootRes = [b \in Boots |-> "none"]
    /\ bootCtxDone = FALSE
    /\ bootErr = Nil
    /\ NoSignal
    /\ notify = Notified
    /\ hPc = "armed"
    /\ hTimer = -1
    /\ hWaited = 0
    /\ NoSignalOption

\* Run(fn) is RunGracefully(fn, nil).
Run(t) == RunGracefully(t, FALSE)

\* The steps of the tasks of the Squad.
TaskNext ==
    \/ \E t \in Tasks : Run(t)
    \/ \E t \in Tasks, r \in Returns : TaskReturn(t, r)
    \/ \E t \in Tasks : AppendLock(t)
    \/ \E t \in Tasks : AppendStore(t)
    \/ \E t \in Tasks : TaskDefer(t)

NextNew ==
    \/ \E b \in Boots, r \in Returns : BootReturn(b, r)
    \/ NewFail
    \/ NewReturn
    \/ \E sig \in Signals : Signal(sig)
    \/ HandlerSignal
    \/ HandlerCtxDone
    \/ HandlerExit
    \/ HandlerTimeout
    \/ TaskNext
    \/ Tick

\* New of the revision that starts the signal handler, and the Squad it returns.
SpecNew == InitNew /\ [][NextNew]_vars

\* The goroutines of New, of the handler and of the tasks run when they can,
\* and time passes.
FairnessNew ==
    /\ WF_vars(NewFail)
    /\ WF_vars(NewReturn)
    /\ WF_vars(HandlerSignal \/ HandlerCtxDone)
    /\ WF_vars(HandlerExit \/ HandlerTimeout)
    /\ \A t \in Tasks : WF_vars(AppendLock(t))
    /\ \A t \in Tasks : WF_vars(AppendStore(t))
    /\ \A t \in Tasks : WF_vars(TaskDefer(t))
    /\ WF_vars(Tick)

FairSpecNew == SpecNew /\ FairnessNew

\* ------------------------------------- WithSignalHandler and handleSignals
\* WithGracefulPeriod(period), applied to the configuration.  Any number of
\* shutdown options may be given, in any order.
WithGracefulPeriod(period) ==
    /\ newPc = "options"
    /\ gracefulPeriod' = period
    /\ UNCHANGED <<ctxDone, coreVars, proc, newVars, sigVars,
                   shutdownTimeout, serverContext, hsPc, hsTimer, hsWaited>>
    /\ UNCHANGED libVars

\* WithShutdownTimeout(timeout), applied to the configuration.
WithShutdownTimeout(timeout) ==
    /\ newPc = "options"
    /\ shutdownTimeout' = timeout
    /\ UNCHANGED <<ctxDone, coreVars, proc, newVars, sigVars,
                   gracefulPeriod, serverContext, hsPc, hsTimer, hsWaited>>
    /\ UNCHANGED libVars

\* WithShutdownInGracePriod(timeout), applied to the configuration.
WithShutdownInGracePriod(timeout) ==
    /\ newPc = "options"
    /\ gracefulPeriod' = timeout
    /\ shutdownTimeout' = timeout
    /\ UNCHANGED <<ctxDone, coreVars, proc, newVars, sigVars,
                   serverContext, hsPc, hsTimer, hsWaited>>
    /\ UNCHANGED libVars

\* A handler that cancels at once.
delayNone(period, timeout) == 0

\* A delay that takes the size of a negative difference.
delayAbs(period, timeout) == IF period >= timeout THEN period - timeout ELSE timeout - period

\* shutdown.delay()
delay(period, timeout) == period - timeout

\* The option WithSignalHandler(opts...) applied by New: the shutdown timeout
\* of the Squad is the configured one, handleSignals subscribes with
\* signal.NotifyContext and starts its goroutine; New returns the Squad (no
\* bootstrap function is given).
WithSignalHandler ==
    /\ newPc = "options"
    /\ cancellationDelay' = shutdownTimeout
    /\ notify' = Signals
    /\ hsPc' = "listening"
    /\ newPc' = "returned"
    /\ UNCHANGED <<ctxDone, cancellationFuncs, err, taskVars, waitVars, sdVars, proc,
                   newErr, bootPc, bootRes, bootCtxDone, bootErr,
                   sigChan, sigCount, hPc, hTimer, hWaited,
                   gracefulPeriod, shutdownTimeout, serverContext, hsTimer,
                   hsWaited>>
    /\ UNCHANGED libVars

\* <-ctx.Done(): a signal has canceled the context of NotifyContext; the
\* goroutine goes on to <-time.After(delay).
HandleSignalsDone ==
    /\ Alive
    /\ hsPc = "listening"
    /\ serverContext
    /\ hsPc' = "delaying"
    /\ hsTimer' = delay(gracefulPeriod, shutdownTimeout)
    /\ hsWaited' = 0
    /\ UNCHANGED <<ctxDone, coreVars, proc, newVars, sigVars,
                   gracefulPeriod, shutdownTimeout, serverContext>>
    /\ UNCHANGED libVars

\* time.After(delay) has fired (at once when the delay is not positive):
\* cancel(), and the deferred stop() releases the subscription.
HandleSignalsCancel ==
    /\ Alive
    /\ hsPc = "delaying"
    /\ hsTimer <= 0
    /\ ctxDone' = cancel(ctxDone)
    /\ hsPc' = "returned"
    /\ notify' = {}
    /\ UNCHANGED <<coreVars, proc, newVars, sigChan, sigCount, hPc, hTimer, hWaited,
                   gracefulPeriod, shutdownTimeout, serverContext, hsTimer,
                   hsWaited>>
    /\ UNCHANGED libVars

\* The state inside WithSignalHandler(opts...) before its options are
\* applied: the configuration holds the defaults.
InitHandle ==
    /\ Fresh
    /\ NoServer
    /\ NoConcurrent
    /\ NoDelayed
    /\ NoGraceful
    /\ NoOptions
    /\ newPc = "options"
    /\ NoBootstrap
    /\ NoSignal
    /\ NoHandler
    /\ NoSignalOption

NextHandle ==
    \/ \E period \in Timeouts : WithGracefulPeriod(period)
    \/ \E timeout \in Timeouts : WithShutdownTimeout(timeout)
    \/ \E timeout \in Timeouts : WithShutdownInGracePriod(timeout)
    \/ WithSignalHandler
    \/ \E sig \in Signals : Signal(sig)
    \/ HandleSignalsDone
    \/ HandleSignalsCancel
    \/ TaskNext
    \/ Tick

\* New with the option WithSignalHandler, and the Squad it returns.
SpecHandle == InitHandle /\ [][NextHandle]_vars

FairnessHandle ==
    /\ WF_vars(HandleSignalsDone)
    /\ WF_vars(HandleSignalsCancel)
    /\ \A t \in Tasks : WF_vars(AppendLock(t))
    /\ \A t \in Tasks : WF_vars(AppendStore(t))
    /\ \A t \in Tasks : WF_vars(TaskDefer(t))
    /\ WF_vars(Tick)

FairSpecHandle == SpecHandle /\ FairnessHandle

\* ================================================================ WithDelay
\* Everything of the Squad and of the process: WithDelay touches none of it.
squadVars == <<ctxDone, coreVars, proc, newVars, sigVars, hsVars, srvVars, regVars,
               graceVars, optVars>>

\* The parent context is canceled by its owner.
ParentCancel ==
    /\ dPc # "none"
    /\ parentErr = "nil"
    /\ parentErr' = "canceled"
    /\ parentTimer' = -1
    /\ UNCHANGED <<parentDeadline, parentValue, dDelay, dPc, dTimer, dWaited, dCh, rcvPc>>
    /\ UNCHANGED squadVars

\* The deadline of the parent context is reached.
ParentExpire ==
    /\ dPc # "none"
    /\ parentErr = "nil"
    /\ parentTimer = 0
    /\ parentErr' = "deadline"
    /\ parentTimer' = -1
    /\ UNCHANGED <<parentDeadline, parentValue, dDelay, dPc, dTimer, dWaited, dCh, rcvPc>>
    /\ UNCHANGED squadVars

\* A delayed context that does not sleep.
SleepNone(d) == 0

\* time.Sleep(delay): the ticks the goroutine sleeps.
Sleep(d) == d

\* <-ctx.Done() of the parent returns; the goroutine goes on to time.Sleep.
DelayParentDone ==
    /\ dPc = "waitParent"
    /\ parentErr # "nil"
    /\ dPc' = "sleep"
    /\ dTimer' = Sleep(dDelay)
    /\ dWaited' = 0
    /\ UNCHANGED <<parentErr, parentDeadline, parentTimer, parentValue, dDelay, dCh, rcvPc>>
    /\ UNCHANGED squadVars

\* time.Sleep returns; the goroutine goes on to ch <- struct{}{}.
DelaySlept ==
    /\ dPc = "sleep"
    /\ dTimer <= 0
    /\ dPc' = "send"
    /\ UNCHANGED <<parentErr, parentDeadline, parentTimer, parentValue, dDelay, dTimer,
                   dWaited, dCh, rcvPc>>
    /\ UNCHANGED squadVars

\* ch <- struct{}{}: the channel has no buffer, the send completes when a
\* goroutine receives from Done(); that receiver r is released.
DelaySend(r) ==
    /\ dPc = "send"
    /\ rcvPc[r] = "waiting"
    /\ dPc' = "close"
    /\ rcvPc' = [rcvPc EXCEPT ![r] = "released"]
    /\ UNCHANGED <<parentErr, parentDeadline, parentTimer, parentValue, dDelay, dTimer,
                   dWaited, dCh>>
    /\ UNCHANGED squadVars

\* close(ch)
DelayClose ==
    /\ dPc = "close"
    /\ dCh' = "closed"
    /\ dPc' = "done"
    /\ UNCHANGED <<parentErr, parentDeadline, parentTimer, parentValue, dDelay, dTimer,
                   dWaited, rcvPc>>
    /\ UNCHANGED squadVars

\* A goroutine starts to receive from Done().
Receive(r) ==
    /\ dPc # "none"
    /\ rcvPc[r] = "idle"
    /\ rcvPc' = [rcvPc EXCEPT ![r] = "waiting"]
    /\ UNCHANGED <<parentErr, parentDeadline, parentTimer, parentValue, dDelay, dPc, dTimer,
                   dWaited, dCh>>
    /\ UNCHANGED squadVars

\* A receive from the closed channel returns.
ReceiveClosed(r) ==
    /\ rcvPc[r] = "waiting"
    /\ dCh = "closed"
    /\ rcvPc' = [rcvPc EXCEPT ![r] = "released"]
    /\ UNCHANGED <<parentErr, parentDeadline, parentTimer, parentValue, dDelay, dPc, dTimer,
                   dWaited, dCh>>
    /\ UNCHANGED squadVars

\* A delayed context with an error of its own, set when its channel is closed.
delayedErrOwn == IF dCh = "closed" THEN "canceled" ELSE "nil"

\* delayedContext.Err
delayedErr == parentErr

\* delayedContext.Deadline
delayedDeadline == parentDeadline

\* delayedContext.Value
delayedValue(key) == parentValue[key]

\* A goroutine of the delayed context has a step to take now.
DelayBusy ==
    \/ dPc = "waitParent" /\ parentErr # "nil"
    \/ dPc = "sleep" /\ dTimer <= 0
    \/ dPc = "send" /\ \E r \in Receivers : rcvPc[r] = "waiting"
    \/ dPc = "close"
    \/ dCh = "closed" /\ \E r \in Receivers : rcvPc[r] = "waiting"
    \/ parentErr = "nil" /\ parentTimer = 0

\* The time.Sleep of the goroutine is counting.
DTimerRuns == dPc = "sleep" /\ dTimer > 0

\* The deadline of the parent is ahead.
ParentTimerRuns == parentErr = "nil" /\ parentTimer > 0

\* One unit of time passes.
DelayTick ==
    /\ ~DelayBusy
    /\ DTimerRuns \/ ParentTimerRuns
    /\ dTimer' = IF DTimerRuns THEN dTimer - 1 ELSE dTimer
    /\ dWaited' = IF DTimerRuns THEN dWaited + 1 ELSE dWaited
    /\ parentTimer' = IF ParentTimerRuns THEN parentTimer - 1 ELSE parentTimer
    /\ UNCHANGED <<parentErr, parentDeadline, parentValue, dDelay, dPc, dCh, rcvPc>>
    /\ UNCHANGED squadVars

\* The state after WithDelay(parent, delay) returned: the parent is live,
\* with or without a deadline, the goroutine waits for it to be done.
InitDelay ==
    /\ Fresh
    /\ NoGraceful
    /\ NoOptions
    /\ newPc = "returned"
    /\ NoBootstrap
    /\ NoSignal
    /\ NoHandler
    /\ NoSignalOption
    /\ NoServer
    /\ NoConcurrent
    /\ parentErr = "nil"
    /\ parentDeadline \in {-1} \cup (1..MaxTimeout)
    /\ parentTimer = parentDeadline
    /\ parentValue \in [Keys -> Values]
    /\ dDelay \in Timeouts
    /\ dPc = "waitParent"
    /\ dTimer = -1
    /\ dWaited = 0
    /\ dCh = "open"
    /\ rcvPc = [r \in Receivers |-> "idle"]

NextDelay ==
    \/ ParentCancel
    \/ ParentExpire
    \/ DelayParentDone
    \/ DelaySlept
    \/ \E r \in Receivers : DelaySend(r)
    \/ DelayClose
    \/ \E r \in Receivers : Receive(r)
    \/ \E r \in Receivers : ReceiveClosed(r)
    \/ DelayTick

SpecDelay == InitDelay /\ [][NextDelay]_vars

\* The goroutine of WithDelay and the blocked receivers run when they can,
\* and time passes; nobody has to cancel the parent or to receive from Done().
FairnessDelay ==
    /\ WF_vars(ParentExpire)
    /\ WF_vars(DelayParentDone)
    /\ WF_vars(DelaySlept)
    /\ WF_vars(\E r \in Receivers : DelaySend(r))
    /\ WF_vars(DelayClose)
    /\ \A r \in Receivers : WF_vars(ReceiveClosed(r))
    /\ WF_vars(DelayTick)

FairSpecDelay == SpecDelay /\ FairnessDelay

\* ================================================= RunServer, RunConsumer
\* RunConsumer(consumer): the consumer runs as a task of the group.
RunConsumer(t) ==
    /\ Constructed
    /\ Alive
    /\ CanRegister
    /\ taskPc[t] = "unreg"
    /\ \A u \in Tasks : u < t => taskPc[u] # "unreg"
    /\ wg' = wg + 1
    /\ taskPc' = [taskPc EXCEPT ![t] = "running"]
    /\ kind' = [kind EXCEPT ![t] = "consumer"]
    /\ UNCHANGED <<ctxDone, cancellationDelay, cancellationFuncs, err, mtx, errs, taskRes, tmp>>
    /\ UNCHANGED <<waitVars, sdVars, proc, newVars, sigVars, hsVars>>
    /\ UNCHANGED <<srvPc, srvErr, srvTmp, waitTmp, regVars, delayVars, graceVars, optVars>>

\* consumeContext: the context the group hands to the consumer's function.
consumeContext(t) == ctxDone

\* A consumer handed the group's context twice.
handleContextShared(t) == consumeContext(t)

\* handleContext: context.WithoutCancel(ctx) of that context.
handleContext(t) == WithoutCancel(consumeContext(t))

\* RunServer(srv), on a Squad whose serverContext was set by
\* WithSignalHandler: srv.ListenAndServe runs as a task of the group and a
\* goroutine of its own waits for s.serverContext to shut the server down.
RunServer(t) ==
    /\ Constructed
    /\ Alive
    /\ CanRegister
    /\ hsPc # "none"
    /\ srvPc = "none"
    /\ taskPc[t] = "unreg"
    /\ \A u \in Tasks : u < t => taskPc[u] # "unreg"
    /\ wg' = wg + 1
    /\ taskPc' = [taskPc EXCEPT ![t] = "running"]
    /\ kind' = [kind EXCEPT ![t] = "server"]
    /\ srvPc' = "waitCtx"
    /\ UNCHANGED <<ctxDone, cancellationDelay, cancellationFuncs, err, mtx, errs, taskRes, tmp>>
    /\ UNCHANGED <<waitVars, sdVars, proc, newVars, sigVars, hsVars>>
    /\ UNCHANGED <<srvErr, srvTmp, waitTmp, regVars, delayVars, graceVars, optVars>>

\* <-ctx.Done() returns and the goroutine calls srv.Shutdown(shutdownCtx).
SrvCtxDone ==
    /\ Alive
    /\ srvPc = "waitCtx"
    /\ ServerCtxDone
    /\ srvPc' = "shutdown"
    /\ UNCHANGED <<ctxDone, coreVars, proc, newVars, sigVars, hsVars>>
    /\ UNCHANGED <<kind, srvErr, srvTmp, waitTmp, regVars, delayVars, graceVars, optVars>>

\* srv.Shutdown returns r, when the connections have drained or on a failure
\* of its own; shutdownCtx is never canceled.
SrvShutdownReturn(r) ==
    /\ Alive
    /\ srvPc = "shutdown"
    /\ srvErr' = r
    /\ srvPc' = "append"
    /\ UNCHANGED <<ctxDone, coreVars, proc, newVars, sigVars, hsVars>>
    /\ UNCHANGED <<kind, srvTmp, waitTmp, regVars, delayVars, graceVars, optVars>>

\* The goroutine of the server, as holder of the mutex.
SrvHolder == -1

\* s.appendErr(err), first half: take the mutex and read s.err.
SrvAppendLock ==
    /\ Alive
    /\ srvPc = "append"
    /\ LockFree(mtx)
    /\ mtx' = SrvHolder
    /\ srvTmp' = err
    /\ srvPc' = "store"
    /\ UNCHANGED <<ctxDone, cancellationDelay, cancellationFuncs, err, wg, errs, taskPc,
                   taskRes, tmp, waitVars, sdVars, proc, newVars, sigVars, hsVars>>
    /\ UNCHANGED <<kind, srvErr, waitTmp, regVars, delayVars, graceVars, optVars>>

\* s.appendErr(err), second half: s.err = errors.Join(s.err, err), and
\* release the mutex.
SrvAppendStore ==
    /\ Alive
    /\ srvPc = "store"
    /\ err' = Join(srvTmp, IF srvErr = "E" THEN <<ServerErr>> ELSE Nil)
    /\ srvTmp' = Nil
    /\ mtx' = 0
    /\ srvPc' = "done"
    /\ UNCHANGED <<ctxDone, cancellationDelay, cancellationFuncs, wg, errs, taskPc,
                   taskRes, tmp, waitVars, sdVars, proc, newVars, sigVars, hsVars>>
    /\ UNCHANGED <<kind, srvErr, waitTmp, regVars, delayVars, graceVars, optVars>>

\* Wait, err := s.wg.Wait() and the read of s.err for the join, which Wait
\* does without the mutex; with no task error there is nothing to join.
WgWaitRead ==
    /\ Alive
    /\ waitPc = "wgWait"
    /\ WgZero(wg)
    /\ waitTmp' = IF errs = Nil THEN waitTmp ELSE err
    /\ waitPc' = IF errs = Nil THEN "shutdown" ELSE "wgJoin"
    /\ UNCHANGED <<ctxDone, cancellationDelay, cancellationFuncs, err, waitCalls,
                   waitResult, atWait, taskVars, sdVars, proc, newVars, sigVars, hsVars>>
    /\ UNCHANGED <<kind, srvPc, srvErr, srvTmp, regVars, delayVars, graceVars, optVars>>

\* Wait, s.err = errors.Join(s.err, err): the write of the join.
WgWaitWrite ==
    /\ Alive
    /\ waitPc = "wgJoin"
    /\ err' = Join(waitTmp, errs)
    /\ waitTmp' = Nil
    /\ waitPc' = "shutdown"
    /\ UNCHANGED <<ctxDone, cancellationDelay, cancellationFuncs, waitCalls,
                   waitResult, atWait, taskVars, sdVars, proc, newVars, sigVars, hsVars>>
    /\ UNCHANGED <<kind, srvPc, srvErr, srvTmp, regVars, delayVars, graceVars, optVars>>

\* The state after New(WithSignalHandler(WithGracefulPeriod(p),
\* WithShutdownTimeout(t))) returned a Squad, with the longest period p and
\* any timeout t within it: handleSignals listens.
InitServer ==
    /\ Fresh
    /\ NoServer
    /\ NoConcurrent
    /\ NoDelayed
    /\ NoGraceful
    /\ NoOptions
    /\ newPc = "returned"
    /\ NoBootstrap
    /\ NoSignal
    /\ notify = Signals
    /\ hPc = "none"
    /\ hTimer = -1
    /\ hWaited = 0
    /\ gracefulPeriod = MaxTimeout
    /\ shutdownTimeout = cancellationDelay
    /\ serverContext = FALSE
    /\ hsPc = "listening"
    /\ hsTimer = -1
    /\ hsWaited = 0

\* The program runs a server first, before any signal, then tasks, and calls
\* Wait once; it registers no shutdown function.  One termination signal may
\* arrive: signal.NotifyContext does nothing on a further one.
NextServer ==
    \/ ~serverContext /\ RunServer(1)
    \/ \E t \in Tasks \ {1} : Run(t)
    \/ \E t \in Tasks, r \in Returns : TaskReturn(t, r)
    \/ \E t \in Tasks : AppendLock(t)
    \/ \E t \in Tasks : AppendStore(t)
    \/ \E t \in Tasks : TaskDefer(t)
    \/ SrvCtxDone
    \/ \E r \in Returns : SrvShutdownReturn(r)
    \/ SrvAppendLock
    \/ SrvAppendStore
    \/ \E sig \in Signals : sigCount = 0 /\ Signal(sig)
    \/ HandleSignalsDone
    \/ HandleSignalsCancel
    \/ WaitCall
    \/ WgWaitRead
    \/ WgWaitWrite
    \/ ShutdownSkip
    \/ Tick

SpecServer == InitServer /\ [][NextServer]_vars

\* The program runs a task with a shutdown function, then consumers, and
\* calls Wait once; one termination signal may arrive.
NextConsumer ==
    \/ RunGracefully(1, TRUE)
    \/ \E t \in Tasks \ {1} : RunConsumer(t)
    \/ \E t \in Tasks, r \in Returns : TaskReturn(t, r)
    \/ \E t \in Tasks : AppendLock(t)
    \/ \E t \in Tasks : AppendStore(t)
    \/ \E t \in Tasks : TaskDefer(t)
    \/ \E sig \in Signals : sigCount = 0 /\ Signal(sig)
    \/ HandleSignalsDone
    \/ HandleSignalsCancel
    \/ WaitCall
    \/ WgWait
    \/ ShutdownSkip
    \/ ShutdownStart
    \/ \E f \in Tasks : callTimeout(f)
    \/ \E f \in Tasks, r \in Returns : FnReturn(f, r)
    \/ \E f \in Tasks : SelectDone(f)
    \/ \E f \in Tasks : SelectResult(f)
    \/ TimerFire
    \/ GroupWait
    \/ Tick

SpecConsumer == InitServer /\ [][NextConsumer]_vars

\* The goroutines of the library run when they can, time passes, and
\* srv.ListenAndServe returns once srv.Shutdown was called.
FairnessServer ==
    /\ \A t \in Tasks : WF_vars(AppendLock(t))
    /\ \A t \in Tasks : WF_vars(AppendStore(t))
    /\ \A t \in Tasks : WF_vars(TaskDefer(t))
    /\ \A t \in Tasks : WF_vars(kind[t] = "server" /\ TaskReturn(t, "nil"))
    /\ WF_vars(SrvCtxDone)
    /\ WF_vars(SrvAppendLock)
    /\ WF_vars(SrvAppendStore)
    /\ WF_vars(HandleSignalsDone)
    /\ WF_vars(HandleSignalsCancel)
    /\ WF_vars(WgWaitRead)
    /\ WF_vars(WgWaitWrite)
    /\ WF_vars(ShutdownSkip)
    /\ WF_vars(Tick)

FairSpecServer == SpecServer /\ FairnessServer

\* ============================================ concurrent RunGracefully
\* RunGracefully(backgroudFn, onDown) with a non-nil onDown, called by
\* goroutines of the program at the same time.  The statement
\* s.cancellationFuncs = append(s.cancellationFuncs, onDown) takes no lock:
\* it is a read of the slice and a write of the slice, and the steps of
\* other callers come in between.
RegRead(t) ==
    /\ Constructed
    /\ Alive
    /\ CanRegister
    /\ taskPc[t] = "unreg"
    /\ regPc[t] = "idle"
    /\ regPc' = [regPc EXCEPT ![t] = "read"]
    /\ regTmp' = [regTmp EXCEPT ![t] = cancellationFuncs]
    /\ UNCHANGED <<ctxDone, coreVars, proc, newVars, sigVars, hsVars, srvVars, delayVars, graceVars, optVars>>

\* The write of the slice, and s.wg.Go(backgroudFn).
RegWrite(t) ==
    /\ Alive
    /\ regPc[t] = "read"
    /\ cancellationFuncs' = Append(regTmp[t], t)
    /\ regPc' = [regPc EXCEPT ![t] = "done"]
    /\ regTmp' = [regTmp EXCEPT ![t] = << >>]
    /\ wg' = wg + 1
    /\ taskPc' = [taskPc EXCEPT ![t] = "running"]
    /\ UNCHANGED <<ctxDone, cancellationDelay, err, mtx, errs, taskRes, tmp>>
    /\ UNCHANGED <<waitVars, sdVars, proc, newVars, sigVars, hsVars, srvVars, delayVars, graceVars, optVars>>

\* The program calls Wait when its registering goroutines have returned.
NextConcurrent ==
    \/ \E t \in Tasks : RegRead(t)
    \/ \E t \in Tasks : RegWrite(t)
    \/ \E t \in Tasks, r \in Returns : TaskReturn(t, r)
    \/ \E t \in Tasks : AppendLock(t)
    \/ \E t \in Tasks : AppendStore(t)
    \/ \E t \in Tasks : TaskDefer(t)
    \/ (\A t \in Tasks : regPc[t] # "read") /\ WaitCall
    \/ WgWait
    \/ ShutdownSkip
    \/ ShutdownStart
    \/ \E f \in Tasks : callTimeout(f)
    \/ \E f \in Tasks, r \in Returns : FnReturn(f, r)
    \/ \E f \in Tasks : SelectDone(f)
    \/ \E f \in Tasks : SelectResult(f)
    \/ TimerFire
    \/ GroupWait
    \/ Tick

SpecConcurrent == Init /\ [][NextConcurrent]_vars

\* ======================================================= a panicking task
\* A group that lets the panic of a task unwind its goroutine.
Unrecovered == "crashed"

\* The group recovers the panic of a task: the process goes on.
Recovered == "running"

\* The function of a task panics.  The group recovers the panic and makes an
\* error of it, which takes the way of a returned error: it is collected,
\* and the deferred calls of the task run.
TaskPanic(t) ==
    /\ Alive
    /\ taskPc[t] = "running"
    /\ kind[t] = "task"
    /\ proc' = Recovered
    /\ taskRes' = [taskRes EXCEPT ![t] = "panic"]
    /\ taskPc' = [taskPc EXCEPT ![t] = "append"]
    /\ UNCHANGED <<ctxDone, cancellationDelay, cancellationFuncs, err, wg, mtx, errs, tmp>>
    /\ UNCHANGED <<waitVars, sdVars, newVars, sigVars, hsVars, libVars>>

NextPanic == Next \/ \E t \in Tasks : TaskPanic(t)

SpecPanic == Init /\ [][NextPanic]_vars

\* ================================== NewSquad on WithGracefulPeriod(ctx, p)
\* gracefulContext.Done(), the Done of the embedded cancelCtx, is closed.
gracefulDone == ctxDone

\* A graceful context whose Err is the Err of the embedded context.
gracefulErrEmbedded == IF ctxDone THEN "Canceled" ELSE "nil"

\* gracefulContext.Err(): ErrContextCancelled when cancel was called and the
\* embedded context is not done yet, the Err of the embedded context
\* otherwise.
gracefulErr ==
    IF isCanceled /\ ~ctxDone THEN "ErrContextCancelled"
    ELSE IF ctxDone THEN "Canceled" ELSE "nil"

\* The caller of NewSquad cancels the context it gave: the embedded context,
\* derived from it, is done as well.
ParentCtxCancel ==
    /\ lsPc # "none"
    /\ ~gParentDone
    /\ gParentDone' = TRUE
    /\ ctxDone' = TRUE
    /\ UNCHANGED <<coreVars, proc, newVars, sigVars, hsVars, srvVars, regVars, delayVars, optVars>>
    /\ UNCHANGED <<isCanceled, gPc, gPeriod, gTimer, gWaited, lsPc>>

\* The deferred s.closeOnce.Do(s.cancel) of the first task to get there: the
\* cancel of the graceful context sets isCanceled under the mutex of the
\* context and waits in <-time.After(gracefulPeriod).
OnceDo(t) ==
    /\ taskPc[t] = "defer"
    /\ gPc = "idle"
    /\ isCanceled' = TRUE
    /\ gPc' = "waiting"
    /\ gTimer' = gPeriod
    /\ gWaited' = 0
    /\ taskPc' = [taskPc EXCEPT ![t] = "cancel"]
    /\ UNCHANGED <<ctxDone, cancellationDelay, cancellationFuncs, err, wg, mtx, errs,
                   taskRes, tmp, waitVars, sdVars>>
    /\ UNCHANGED <<proc, newVars, sigVars, hsVars, srvVars, regVars, delayVars, optVars>>
    /\ UNCHANGED <<gParentDone, gPeriod, lsPc>>

\* time.After has fired: cancelFn() of the embedded context, cancel returns,
\* the Once is done, and the deferred s.wg.Done() of the task follows.
OnceReturn(t) ==
    /\ taskPc[t] = "cancel"
    /\ gTimer <= 0
    /\ ctxDone' = TRUE
    /\ gPc' = "returned"
    /\ wg' = wg - 1
    /\ taskPc' = [taskPc EXCEPT ![t] = "done"]
    /\ UNCHANGED <<cancellationDelay, cancellationFuncs, err, mtx, errs,
                   taskRes, tmp, waitVars, sdVars>>
    /\ UNCHANGED <<proc, newVars, sigVars, hsVars, srvVars, regVars, delayVars, optVars>>
    /\ UNCHANGED <<gParentDone, isCanceled, gPeriod, gTimer, gWaited, lsPc>>

\* s.closeOnce.Do(s.cancel) of a later task: it returns when the first call
\* has returned, without calling cancel; then s.wg.Done().
OnceSkip(t) ==
    /\ taskPc[t] = "defer"
    /\ gPc = "returned"
    /\ wg' = wg - 1
    /\ taskPc' = [taskPc EXCEPT ![t] = "done"]
    /\ UNCHANGED <<ctxDone, cancellationDelay, cancellationFuncs, err, mtx, errs,
                   taskRes, tmp, waitVars, sdVars>>
    /\ UNCHANGED <<proc, newVars, sigVars, hsVars, srvVars, regVars, delayVars, graceVars, optVars>>

\* A listener that waits for the context of the Squad.
ListensToSquadCtx == ctxDone

\* <-ctx.Done() of the background listener: ctx is the context given to
\* NewSquad.
ListenerCtxDone == gParentDone

\* The listener goes on: context.WithTimeout(context.Background(),
\* squad.cancellationDelay), and squad.shutdown(ctx) when a shutdown function
\* is registered: s.wg.Add(len(s.cancellationFuncs)) and one goroutine each.
ListenerShutdown ==
    /\ lsPc = "waitParent"
    /\ ListenerCtxDone
    /\ sdCtx' = WithTimeout(FALSE, cancellationDelay)
    /\ sdTimer' = cancellationDelay
    /\ wg' = wg + Len(cancellationFuncs)
    /\ wrapPc' = [f \in Tasks |-> IF f \in Funcs THEN "start" ELSE "none"]
    /\ lsPc' = "waitTimeout"
    /\ UNCHANGED <<ctxDone, cancellationDelay, cancellationFuncs, err, mtx, errs,
                   taskPc, taskRes, tmp, waitVars>>
    /\ UNCHANGED <<sgCount, sgErrs, wrapRes, fnPc, ch, fnWhen, invoked>>
    /\ UNCHANGED <<proc, newVars, sigVars, hsVars, srvVars, regVars, delayVars, optVars>>
    /\ UNCHANGED <<gParentDone, isCanceled, gPc, gPeriod, gTimer, gWaited>>

\* The goroutine of a shutdown function, select, case <-ctx.Done(): return,
\* and the deferred s.wg.Done().
ListenerSelectDone(f) ==
    /\ lsPc # "none"
    /\ wrapPc[f] = "select"
    /\ SdDone
    /\ wrapPc' = [wrapPc EXCEPT ![f] = "done"]
    /\ wg' = wg - 1
    /\ UNCHANGED <<ctxDone, cancellationDelay, cancellationFuncs, err, mtx, errs,
                   taskPc, taskRes, tmp, waitVars>>
    /\ UNCHANGED <<sdCtx, sdTimer, sgCount, sgErrs, wrapRes, fnPc, ch, fnWhen, invoked>>
    /\ UNCHANGED <<proc, newVars, sigVars, hsVars, srvVars, regVars, delayVars, graceVars, optVars>>

\* select, case err = <-callTimeout(ctx, cancelFn), s.appendErr(err) when
\* err is not nil, and the deferred s.wg.Done().
ListenerSelectResult(f) ==
    /\ lsPc # "none"
    /\ wrapPc[f] = "select"
    /\ ch[f] # "empty"
    /\ LockFree(mtx)
    /\ errs' = Join(errs, ChanErr(f))
    /\ wrapPc' = [wrapPc EXCEPT ![f] = "done"]
    /\ wg' = wg - 1
    /\ UNCHANGED <<ctxDone, cancellationDelay, cancellationFuncs, err, mtx,
                   taskPc, taskRes, tmp, waitVars>>
    /\ UNCHANGED <<sdCtx, sdTimer, sgCount, sgErrs, wrapRes, fnPc, ch, fnWhen, invoked>>
    /\ UNCHANGED <<proc, newVars, sigVars, hsVars, srvVars, regVars, delayVars, graceVars, optVars>>

\* The second <-ctx.Done() of the listener: the timeout has expired; the
\* deferred cancel() and squad.wg.Done().
ListenerReturn ==
    /\ lsPc = "waitTimeout"
    /\ sdCtx = "expired"
    /\ lsPc' = "done"
    /\ wg' = wg - 1
    /\ UNCHANGED <<ctxDone, cancellationDelay, cancellationFuncs, err, mtx, errs,
                   taskPc, taskRes, tmp, waitVars, sdVars>>
    /\ UNCHANGED <<proc, newVars, sigVars, hsVars, srvVars, regVars, delayVars, optVars>>
    /\ UNCHANGED <<gParentDone, isCanceled, gPc, gPeriod, gTimer, gWaited>>

\* Wait is called: the goroutine blocks in s.wg.Wait().
WaitBlocks ==
    /\ lsPc # "none"
    /\ waitPc = "idle"
    /\ waitPc' = "wgWait"
    /\ waitCalls' = waitCalls + 1
    /\ atWait' = Registered
    /\ UNCHANGED <<ctxDone, cancellationDelay, cancellationFuncs, err, waitResult,
                   taskVars, sdVars>>
    /\ UNCHANGED <<proc, newVars, sigVars, hsVars, srvVars, regVars, delayVars, graceVars, optVars>>

\* Wait: s.wg.Wait(); return s.errs
WaitReturnErrs ==
    /\ lsPc # "none"
    /\ waitPc = "wgWait"
    /\ WgZero(wg)
    /\ waitResult' = errs
    /\ waitPc' = "returned"
    /\ UNCHANGED <<ctxDone, cancellationDelay, cancellationFuncs, err, waitCalls, atWait,
                   taskVars, sdVars>>
    /\ UNCHANGED <<proc, newVars, sigVars, hsVars, srvVars, regVars, delayVars, graceVars, optVars>>

\* Some goroutine of this Squad has a step to take now.
GraceBusy ==
    \/ \E t \in Tasks : taskPc[t] \in {"append", "store"}
    \/ \E t \in Tasks : taskPc[t] = "defer" /\ gPc \in {"idle", "returned"}
    \/ \E t \in Tasks : taskPc[t] = "cancel" /\ gTimer <= 0
    \/ lsPc = "waitParent" /\ ListenerCtxDone
    \/ lsPc = "waitTimeout" /\ sdCtx = "expired"
    \/ \E f \in Tasks : wrapPc[f] = "start"
    \/ \E f \in Tasks : wrapPc[f] = "select" /\ (SdDone \/ ch[f] # "empty")
    \/ sdCtx = "active" /\ sdTimer <= 0
    \/ waitPc = "wgWait" /\ wg = 0

\* The time.After of the graceful context's cancel is counting.
GTimerRuns == gPc = "waiting" /\ gTimer > 0

\* One unit of time passes for every timer that is counting.
GraceTick ==
    /\ ~GraceBusy
    /\ GTimerRuns \/ SdTimerRuns
    /\ gTimer' = IF GTimerRuns THEN gTimer - 1 ELSE gTimer
    /\ gWaited' = IF GTimerRuns THEN gWaited + 1 ELSE gWaited
    /\ sdTimer' = IF SdTimerRuns THEN sdTimer - 1 ELSE sdTimer
    /\ UNCHANGED <<ctxDone, cancellationDelay, cancellationFuncs, err, taskVars, waitVars>>
    /\ UNCHANGED <<sdCtx, sgCount, sgErrs, wrapPc, wrapRes, fnPc, ch, fnWhen, invoked>>
    /\ UNCHANGED <<proc, newVars, sigVars, hsVars, srvVars, regVars, delayVars, optVars>>
    /\ UNCHANGED <<gParentDone, isCanceled, gPc, gPeriod, lsPc>>

\* The state after NewSquad(ctx, opts...) returned a Squad, with no
\* bootstrap function and no function given by option, any graceful period
\* and the longest shutdown timeout: the context of the Squad is the graceful
\* context, and the background listener, counted in s.wg, waits for ctx.
InitNewSquad ==
    /\ ctxDone = FALSE
    /\ cancellationDelay = MaxTimeout
    /\ cancellationFuncs = << >>
    /\ err = Nil
    /\ wg = 1
    /\ mtx = 0
    /\ errs = Nil
    /\ taskPc = [t \in Tasks |-> "unreg"]
    /\ taskRes = [t \in Tasks |-> "nil"]
    /\ tmp = [t \in Tasks |-> Nil]
    /\ waitPc = "idle"
    /\ waitCalls = 0
    /\ waitResult = Nil
    /\ atWait = {}
    /\ sdCtx = "none"
    /\ sdTimer = -1
    /\ sgCount = 0
    /\ sgErrs = Nil
    /\ wrapPc = [f \in Tasks |-> "none"]
    /\ wrapRes = [f \in Tasks |-> Nil]
    /\ fnPc = [f \in Tasks |-> "none"]
    /\ ch = [f \in Tasks |-> "empty"]
    /\ fnWhen = [f \in Tasks |-> "none"]
    /\ invoked = [f \in Tasks |-> 0]
    /\ NoServer
    /\ NoConcurrent
    /\ NoDelayed
    /\ newPc = "returned"
    /\ NoBootstrap
    /\ NoSignal
    /\ NoHandler
    /\ NoSignalOption
    /\ gParentDone = FALSE
    /\ isCanceled = FALSE
    /\ gPc = "idle"
    /\ gPeriod \in Timeouts
    /\ gTimer = -1
    /\ gWaited = 0
    /\ lsPc = "waitParent"
    /\ NoOptions

\* The program runs a task with a shutdown function, then tasks without,
\* and calls Wait once; it may cancel the context it gave to NewSquad.
NextNewSquad ==
    \/ RunGracefully(1, TRUE)
    \/ \E t \in Tasks \ {1} : Run(t)
    \/ \E t \in Tasks, r \in Returns : TaskReturn(t, r)
    \/ \E t \in Tasks : AppendLock(t)
    \/ \E t \in Tasks : AppendStore(t)
    \/ \E t \in Tasks : OnceDo(t)
    \/ \E t \in Tasks : OnceReturn(t)
    \/ \E t \in Tasks : OnceSkip(t)
    \/ ParentCtxCancel
    \/ ListenerShutdown
    \/ \E f \in Tasks : callTimeout(f)
    \/ \E f \in Tasks, r \in Returns : FnReturn(f, r)
    \/ \E f \in Tasks : ListenerSelectDone(f)
    \/ \E f \in Tasks : ListenerSelectResult(f)
    \/ TimerFire
    \/ ListenerReturn
    \/ WaitBlocks
    \/ WaitReturnErrs
    \/ GraceTick

SpecNewSquad == InitNewSquad /\ [][NextNewSquad]_vars

\* The goroutines of the Squad run when they can and time passes; the caller
\* of NewSquad is under no obligation to cancel its context.
FairnessNewSquad ==
    /\ \A t \in Tasks : WF_vars(AppendLock(t))
    /\ \A t \in Tasks : WF_vars(AppendStore(t))
    /\ \A t \in Tasks : WF_vars(OnceDo(t))
    /\ \A t \in Tasks : WF_vars(OnceReturn(t))
    /\ \A t \in Tasks : WF_vars(OnceSkip(t))
    /\ WF_vars(ListenerShutdown)
    /\ \A f \in Tasks : WF_vars(callTimeout(f))
    /\ \A f \in Tasks : WF_vars(ListenerSelectDone(f) \/ ListenerSelectResult(f))
    /\ WF_vars(TimerFire)
    /\ WF_vars(ListenerReturn)
    /\ WF_vars(WaitReturnErrs)
    /\ WF_vars(GraceTick)

FairSpecNewSquad == SpecNewSquad /\ FairnessNewSquad

\* ------------------------------------------------------ the options of New
\* What a function argument may be: a shutdown function, named by its
\* number, or nil.
FnValues == {NilFn} \cup Tasks

\* The argument lists WithCloses may be given.
FnLists == UNION {[1..n -> FnValues] : n \in 0..MaxTasks}

\* The functions of a list are distinct from each other and from the ones
\* registered so far; nil may come any number of times.
NewFns(fns) ==
    /\ \A i \in 1..Len(fns) : fns[i] # NilFn => fns[i] \notin Funcs
    /\ \A i, j \in 1..Len(fns) : (i # j /\ fns[i] = fns[j]) => fns[i] = NilFn

\* opt(squad) of WithCloses(fns...): every argument is appended as it is.
WithCloses(fns) ==
    /\ newPc = "options"
    /\ Len(cancellationFuncs) + Len(fns) <= MaxTasks
    /\ NewFns(fns)
    /\ cancellationFuncs' = cancellationFuncs \o fns
    /\ UNCHANGED <<ctxDone, cancellationDelay, err, taskVars, waitVars, sdVars, procVars>>

\* opt(squad) of WithSubsystem(initFn, closeFn): both arguments are appended
\* as they are.
WithSubsystem(initFn, closeFn) ==
    /\ newPc = "options"
    /\ Len(cancellationFuncs) < MaxTasks
    /\ NewFns(<<closeFn>>)
    /\ \A i \in 1..Len(bootstraps) : bootstraps[i] # initFn
    /\ bootstraps' = Append(bootstraps, initFn)
    /\ cancellationFuncs' = Append(cancellationFuncs, closeFn)
    /\ UNCHANGED <<ctxDone, cancellationDelay, err, taskVars, waitVars, sdVars>>
    /\ UNCHANGED <<proc, newVars, sigVars, hsVars, srvVars, regVars, delayVars, graceVars>>

\* The options are applied and New calls onStart(ctx, squad.bootstraps...):
\* one group.Go per bootstrap function.
NewOnStart ==
    /\ newPc = "options"
    /\ newPc' = "onStart"
    /\ bootPc' = [b \in Boots |->
                     IF \E i \in 1..Len(bootstraps) : bootstraps[i] = b
                     THEN "running" ELSE "none"]
    /\ UNCHANGED <<ctxDone, coreVars, proc, newErr, bootRes, bootCtxDone, bootErr,
                   sigVars, hsVars>>
    /\ UNCHANGED libVars

\* ch <- fn(ctx) in the goroutine of callTimeout, for an entry of
\* s.cancellationFuncs that is nil: the call of a nil function panics, in a
\* goroutine where nothing recovers, and the process dies.
CallNil ==
    /\ Alive
    /\ waitPc = "groupWait"
    /\ NilFn \in Funcs
    /\ proc' = "crashed"
    /\ UNCHANGED <<ctxDone, coreVars, newVars, sigVars, hsVars>>
    /\ UNCHANGED libVars

\* New of the revision that has WithSubsystem, before its options are
\* applied.
InitOptions ==
    /\ Fresh
    /\ NoServer
    /\ NoConcurrent
    /\ NoDelayed
    /\ NoGraceful
    /\ NoOptions
    /\ newPc = "options"
    /\ NoBootstrap
    /\ NoSignal
    /\ NoHandler
    /\ NoSignalOption

\* New with any options, then the program: its tasks, with or without a
\* shutdown function of their own, and Wait.
NextOptions ==
    \/ \E fns \in FnLists : WithCloses(fns)
    \/ \E initFn \in Boots, closeFn \in FnValues : WithSubsystem(initFn, closeFn)
    \/ NewOnStart
    \/ \E b \in Boots, r \in Returns : BootReturn(b, r)
    \/ NewFail
    \/ NewReturn
    \/ \E t \in Tasks, onDown \in BOOLEAN : (onDown => t \notin Funcs) /\ RunGracefully(t, onDown)
    \/ \E t \in Tasks, r \in Returns : TaskReturn(t, r)
    \/ \E t \in Tasks : AppendLock(t)
    \/ \E t \in Tasks : AppendStore(t)
    \/ \E t \in Tasks : TaskDefer(t)
    \/ WaitCall
    \/ WgWait
    \/ ShutdownSkip
    \/ ShutdownStart
    \/ \E f \in Tasks : callTimeout(f)
    \/ CallNil
    \/ \E f \in Tasks, r \in Returns : FnReturn(f, r)
    \/ \E f \in Tasks : SelectDone(f)
    \/ \E f \in Tasks : SelectResult(f)
    \/ TimerFire
    \/ GroupWait
    \/ Tick

SpecOptions == InitOptions /\ [][NextOptions]_vars

\* ================================================================= claims

\* C1. Fail-fast cancellation: whenever a task registered with Run or
\* RunGracefully has returned, with nil or with an error, the context handed
\* to every task of the group becomes canceled.
C1_FailFast == \A t \in Tasks : (t \in Returned) ~> ctxDone

\* A task has finished, the context is canceled, and another task is still
\* running and can observe Done.
C1_Witness ==
    \E t, u \in Tasks : taskPc[t] = "done" /\ taskPc[u] = "running" /\ ctxDone

\* C2. Wait never returns while a task registered before Wait was called is
\* still running: when Wait has returned, every such task has returned.
C2_WaitAfterTasks ==
    waitPc = "returned" => \A t \in atWait : taskPc[t] = "done"

\* Wait has returned after two tasks registered before the call, one of them
\* failing.
C2_Witness ==
    /\ waitPc = "returned"
    /\ Cardinality(atWait) >= 2
    /\ \E t \in atWait : taskRes[t] = "E"

\* C3. No shutdown function starts while a task is still running: once any
\* shutdown function has been called, every registered task has returned.
C3_ShutdownAfterTasks ==
    (\E f \in Tasks : invoked[f] > 0) => \A t \in Registered : taskPc[t] = "done"

\* Two tasks were registered and a shutdown function is running.
C3_Witness ==
    /\ Cardinality(Registered) >= 2
    /\ \E f \in Tasks : fnPc[f] = "running"

\* C4. Every task failure is aggregated under every interleaving: the error
\* Wait returns enumerates the error of each task that returned non-nil
\* once, and nothing for a task that returned nil.
C4_AllTaskErrors ==
    waitPc = "returned" =>
        \A t \in Registered :
            Count(waitResult, TaskErr(t)) = IF taskRes[t] = "E" THEN 1 ELSE 0

\* Wait has returned after two tasks failed.
C4_Witness ==
    /\ waitPc = "returned"
    /\ \E t, u \in Registered : t # u /\ taskRes[t] = "E" /\ taskRes[u] = "E"

\* C5. A shutdown function that has not finished when the shutdown timeout
\* expires contributes the deadline-exceeded condition to the result of
\* Wait, while a sibling that finishes before the timeout contributes
\* exactly its own return value.
C5_TimeoutAndSiblings ==
    waitPc = "returned" =>
        \A f \in Funcs :
            /\ fnPc[f] = "abandoned" =>
                   /\ wrapRes[f] = <<DeadlineExceeded(f)>>
                   /\ Count(waitResult, DeadlineExceeded(f)) = 1
                   /\ Count(waitResult, DownErr(f)) = 0
            /\ fnWhen[f] = "before" =>
                   /\ wrapRes[f] = IF ch[f] = "E" THEN <<DownErr(f)>> ELSE Nil
                   /\ Count(waitResult, DownErr(f)) = IF ch[f] = "E" THEN 1 ELSE 0
                   /\ Count(waitResult, DeadlineExceeded(f)) = 0

\* Wait has returned after one shutdown function outlived the timeout and a
\* sibling failed before it.
C5_Witness ==
    /\ waitPc = "returned"
    /\ \E f, g \in Funcs :
           /\ fnPc[f] = "abandoned"
           /\ fnWhen[g] = "before"
           /\ ch[g] = "E"

\* C6. Once all tasks have returned, Wait eventually returns, also when a
\* registered shutdown function never returns: at the shutdown timeout the
\* function is abandoned.
C6_WaitTerminates == (waitPc # "idle" /\ wg = 0) ~> (waitPc = "returned")

\* Wait has returned and left a shutdown function running.
C6_Witness ==
    /\ waitPc = "returned"
    /\ \E f \in Funcs : fnPc[f] = "abandoned"

\* C7. Over any sequence of RunGracefully and Wait calls, Wait being called
\* more than once included, each registered shutdown function is invoked at
\* most once.
C7_AtMostOnce == \A f \in Tasks : invoked[f] <= 1

\* C8. The shutdown context is independent of the cancellation of the root
\* context: it is live when the shutdown functions are started with a
\* timeout still to run, it expires only when the shutdown timeout has run
\* out, and it is canceled only when the shutdown phase has finished.
C8_ShutdownContext ==
    /\ sdCtx = "expired" => sdTimer <= 0
    /\ sdCtx = "canceled" => waitPc = "returned"
    /\ (waitPc = "groupWait" /\ sdTimer > 0) => sdCtx = "active"

\* The root context is canceled, the shutdown context is live and a shutdown
\* function is running under it.
C8_Witness ==
    /\ ctxDone
    /\ sdCtx = "active"
    /\ \E f \in Funcs : fnPc[f] = "running"

C10_CleanRun ==
    ( /\ waitPc = "returned"
      /\ \A t \in Registered : taskRes[t] = "nil"
      /\ \A f \in Funcs : fnPc[f] = "finished" /\ ch[f] = "nil" /\ fnWhen[f] = "before" )
    => waitResult = Nil

\* Wait has returned nil after two tasks and a shutdown function returned nil.
C10_Witness ==
    /\ waitPc = "returned"
    /\ Cardinality(Registered) >= 2
    /\ \A t \in Registered : taskRes[t] = "nil"
    /\ Funcs # {}
    /\ \A f \in Funcs : fnPc[f] = "finished" /\ ch[f] = "nil" /\ fnWhen[f] = "before"
    /\ waitResult = Nil

\* C11. The error Wait returns enumerates one failure per task that returned
\* a non-nil error and one per shutdown function that returned a non-nil
\* error or timed out: the same error value returned twice appears twice,
\* and a nil return adds nothing.
C11_FailureCount ==
    waitPc = "returned" =>
        LET failedTasks == {t \in Registered : taskRes[t] = "E"}
            timedOut == {f \in Funcs : wrapRes[f] = <<DeadlineExceeded(f)>>}
            failedDown == {f \in Funcs \ timedOut : ch[f] = "E"}
        IN /\ Len(waitResult) = Cardinality(failedTasks) + Cardinality(failedDown)
                                   + Cardinality(timedOut)
           /\ CountValue(waitResult, "E") = Cardinality(failedTasks) + Cardinality(failedDown)
           /\ CountValue(waitResult, "deadline") = Cardinality(timedOut)

\* Wait has returned after a task and a shutdown function returned the same
\* error value while another task returned nil: the value appears twice.
C11_Witness ==
    /\ waitPc = "returned"
    /\ \E t \in Registered : taskRes[t] = "nil"
    /\ \E t \in Registered, f \in Funcs :
           /\ taskRes[t] = "E"
           /\ ch[f] = "E"
           /\ waitResult = <<TaskErr(t), DownErr(f)>>
    /\ CountValue(waitResult, "E") = 2

\* C12. Once a bootstrap function has returned a non-nil error, the context
\* shared by the bootstrap functions is canceled, New returns no Squad but
\* the error of a bootstrap function that failed, and no task is launched.
C12_BootstrapFailure ==
    (\E b \in Boots : bootRes[b] = "E") =>
        /\ BootstrapCtxDone
        /\ newPc # "returned"
        /\ Registered = {}
        /\ newPc = "failed" =>
               \E b \in Boots : bootRes[b] = "E" /\ newErr = <<BootErr(b)>>

\* New has returned the error of a bootstrap function whose sibling returned
\* nil after it.
C12_Witness ==
    /\ newPc = "failed"
    /\ \E b, c \in Boots :
          /\ bootRes[b] = "E"
          /\ bootRes[c] = "nil"
          /\ newErr = <<BootErr(b)>>
    /\ BootstrapCtxDone
    /\ Registered = {}

\* C13. When New has failed on a bootstrap function, no signal handler was
\* started: no signal subscription is installed and no handler goroutine is
\* listening.
C13_NoHandlerAfterFailure ==
    newPc = "failed" => (notify = {} /\ hPc \notin {"armed", "waiting"})

\* C14. A second signal that reaches the handler while it waits, after it
\* canceled the root context and before its timer has run out, terminates
\* the process with exit status 1 (unless a signal the handler does not
\* listen to kills the process first); nothing else is waited for.
C14_SecondSignalExits ==
    (Alive /\ hPc = "waiting" /\ sigChan # << >> /\ hTimer > 0)
        ~> (proc = "exit1" \/ proc = "killed")

\* The handler has terminated the process on the second signal, at the
\* instant it canceled the root context, while a task was still running.
C14_Witness ==
    /\ proc = "exit1"
    /\ hPc = "waiting"
    /\ hWaited = 0
    /\ ctxDone
    /\ Running # {}

\* C16. When the root context is done and no signal has been received, the
\* armed handler takes its step: it returns, without starting its timer,
\* without calling cancel and with the subscription released; a handler
\* that returned this way never terminates the process.
C16_TaskInitiated ==
    /\ [][(hPc = "armed" /\ ctxDone /\ sigChan = << >> /\ hPc' # "armed") =>
              /\ hPc' = "returned"
              /\ hTimer' = -1
              /\ hWaited' = 0
              /\ notify' = {}
              /\ proc' = proc]_vars
    /\ [](hPc = "returned" => proc # "exit1")
    /\ (Alive /\ hPc = "armed" /\ ctxDone) ~> (hPc # "armed" \/ ~Alive)

\* The handler has returned after a task returned, and no signal was ever
\* sent to the process.
C16_Witness ==
    /\ hPc = "returned"
    /\ Finished # {}
    /\ sigCount = 0
    /\ hWaited = 0
    /\ Alive

\* C17. After it canceled the root context on the first signal the handler
\* waits; when no second signal reaches it, it gives up exactly
\* shutdownTimeout + 5 seconds later and returns, and the process goes on.
C17_GiveUp ==
    /\ [](hPc = "gaveUp" =>
              /\ hWaited = cancellationDelay + SafetyMargin
              /\ proc # "exit1")
    /\ (Alive /\ hPc = "waiting") ~> (hPc = "gaveUp" \/ ~Alive)

\* The handler has given up after a single signal; the process runs.
C17_Witness ==
    /\ hPc = "gaveUp"
    /\ sigCount = 1
    /\ cancellationDelay > 0
    /\ hWaited = cancellationDelay + SafetyMargin
    /\ Alive

\* C18. Once the root context is done the signal subscription is released
\* in the end (or the process is gone), and the handler goroutine has never
\* ended while the subscription is installed.
C18_ScopedSubscription ==
    /\ [](hPc \in {"returned", "gaveUp"} => notify = {})
    /\ (Alive /\ ctxDone) ~> (notify = {} \/ ~Alive)

\* The subscription has been released by the handler that canceled the root
\* context on a signal, while a task is still running.
C18_Witness ==
    /\ ctxDone
    /\ notify = {}
    /\ hPc = "gaveUp"
    /\ Running # {}
    /\ Alive

\* C19. No termination signal of the documented set (SIGINT, SIGTERM, SIGHUP,
\* SIGQUIT) terminates the process while the handler is armed: each of them
\* is handed to the handler, which cancels the root context.
C19_AllSignalsGraceful ==
    proc = "killed" => hPc # "armed"

C20_TimeoutWithinGrace ==
    shutdownTimeout <= gracefulPeriod

\* C21. The time handleSignals lets pass between the signal and its call of
\* cancel is max(0, gracefulPeriod - shutdownTimeout): it never waits longer,
\* and with a shutdown timeout that is not below the grace period it does
\* not wait at all.
C21_ClampedDelay ==
    LET clamped == IF gracefulPeriod > shutdownTimeout
                   THEN gracefulPeriod - shutdownTimeout ELSE 0
    IN /\ hsPc = "returned" => hsWaited = clamped
       /\ hsPc = "delaying" => hsWaited <= clamped
       /\ (hsPc \in {"delaying", "returned"} /\ shutdownTimeout >= gracefulPeriod)
              => hsWaited = 0

\* handleSignals has canceled the root context with no wait, the shutdown
\* timeout exceeding the grace period.
C21_Witness ==
    /\ hsPc = "returned"
    /\ shutdownTimeout > gracefulPeriod
    /\ hsWaited = 0
    /\ ctxDone
    /\ Finished = {}

\* C22. The done event of a delayed context is observed (a receive from
\* Done() returns, or the channel is closed) only when the parent is done
\* and the whole delay has passed since: never earlier, and never while the
\* parent is live.
C22_NotBeforeDelay ==
    (dCh = "closed" \/ \E r \in Receivers : rcvPc[r] = "released") =>
        /\ parentErr # "nil"
        /\ dWaited >= dDelay

\* A receiver has been released a positive delay after the parent was
\* canceled.
C22_Witness ==
    /\ \E r \in Receivers : rcvPc[r] = "released"
    /\ parentErr = "canceled"
    /\ dDelay > 0
    /\ dWaited = dDelay

\* C23. Once the parent of a delayed context is done and the delay has
\* passed, the channel of Done() is closed in the end, also when no goroutine
\* is receiving from it by then.
C23_EventuallyClosed ==
    (dPc = "send") ~> (dCh = "closed")

\* C24. Err, Deadline and Value of a delayed context return what the parent
\* returns, at every moment: also while the parent is done and the delayed
\* context is not.
C24_Delegation ==
    /\ delayedErr = parentErr
    /\ delayedDeadline = parentDeadline
    /\ \A k \in Keys : delayedValue(k) = parentValue[k]

\* The delayed context is done, after a parent that has a deadline and a
\* value was canceled: it reports the parent's error, deadline and value.
C24_Witness ==
    /\ dCh = "closed"
    /\ delayedErr = "canceled"
    /\ delayedDeadline > 0
    /\ \E k \in Keys : delayedValue(k) = "v"

\* C25: the handle context of a consumer is never canceled by the library,
\* whatever happened (a signal, the cancellation of the root context, the
\* expiry of the shutdown timeout); its consume context is canceled once
\* shutdown has begun: a task has run its deferred cancel, the signal
\* goroutine has canceled, or Wait has reached the shutdown functions.
C25_ConsumerContexts ==
    \A t \in Tasks :
        kind[t] = "consumer" =>
            /\ ~handleContext(t)
            /\ ( \/ \E u \in Tasks : taskPc[u] = "done"
                 \/ hsPc = "returned"
                 \/ sdCtx # "none" ) => consumeContext(t)

\* A consumer after a signal, with the root context canceled and the
\* shutdown timeout expired.
C25_Witness ==
    \E t \in Tasks :
        /\ kind[t] = "consumer"
        /\ serverContext
        /\ ctxDone
        /\ sdCtx = "expired"
        /\ consumeContext(t)
        /\ ~handleContext(t)

\* C26: RunGracefully is safe to call from several goroutines at once: the
\* shutdown function of every call that has returned is registered, and when
\* Wait has returned each of them was run.
C26_NoRegistrationLost ==
    /\ \A t \in Tasks : regPc[t] = "done" => t \in Funcs
    /\ waitPc = "returned" => \A t \in Tasks : regPc[t] = "done" => invoked[t] = 1

\* C27: no error given to appendErr is lost to a concurrent join of Wait:
\* when Wait returns, the error that the shutdown goroutine of RunServer
\* had passed to appendErr before is part of the error Wait returns.
C27_AppendNeverLost ==
    [][ ( /\ waitPc # "returned"
          /\ waitPc' = "returned"
          /\ srvPc = "done"
          /\ srvErr = "E" ) => ServerErr \in Leaves(waitResult') ]_vars

\* C28: a panic inside a task does not crash the process; it is made an
\* error and counts as a failure of the task: the root context is canceled
\* when the task is through, and the error Wait returns enumerates the
\* panic of every task registered before Wait was called, once.
C28_PanicRecovered ==
    /\ proc # "crashed"
    /\ \A t \in Tasks : (taskRes[t] = "panic" /\ taskPc[t] = "done") => ctxDone
    /\ waitPc = "returned" =>
           \A t \in atWait : taskRes[t] = "panic" => Count(waitResult, PanicErr(t)) = 1

\* Wait has returned the panic of one task next to the error of another.
C28_Witness ==
    /\ waitPc = "returned"
    /\ proc = "running"
    /\ \E t, u \in atWait :
           /\ taskRes[t] = "panic"
           /\ taskRes[u] = "E"
           /\ PanicErr(t) \in Leaves(waitResult)
           /\ TaskErr(u) \in Leaves(waitResult)

\* C29: with a signal handler configured, a server started with RunServer is
\* stopped by a task-initiated shutdown as well: when Wait is called and
\* every other task has returned while the server still runs, the server is
\* told to shut down, so that its task returns and Wait returns, signal or
\* not.
C29_ServerStopsOnTaskExit ==
    ( /\ waitPc = "wgWait"
      /\ kind[1] = "server"
      /\ taskPc[1] = "running"
      /\ \A t \in Tasks \ {1} : taskPc[t] = "done" )
        ~> (waitPc = "returned")

\* C30, as stated: on a signal the server context is done at that moment,
\* and when the signal goroutine cancels the root context, some time has
\* passed since the signal and the server has been told to shut down
\* already: the server is never told to stop after the other tasks.
C30_ServerAlwaysFirst ==
    /\ [](sigCount > 0 => serverContext)
    /\ [][ (hsPc = "delaying" /\ hsPc' = "returned") =>
               (hsWaited > 0 /\ srvPc # "waitCtx") ]_vars

\* C30, amended: that order holds when the graceful period is longer than
\* the shutdown timeout; the root context is then canceled exactly their
\* difference after the signal, the server having been told to shut down.
C30_ServerFirst ==
    /\ [](sigCount > 0 => serverContext)
    /\ [][ (hsPc = "delaying" /\ hsPc' = "returned" /\ gracefulPeriod > shutdownTimeout) =>
               /\ hsWaited = gracefulPeriod - shutdownTimeout
               /\ hsWaited > 0
               /\ srvPc # "waitCtx" ]_vars

\* The signal goroutine has canceled the root context after a delay, the
\* server was told to shut down before, and another task is still running.
C30_Witness ==
    /\ hsPc = "returned"
    /\ gracefulPeriod > shutdownTimeout
    /\ hsWaited > 0
    /\ ctxDone
    /\ kind[1] = "server"
    /\ srvPc \in {"shutdown", "append", "store", "done"}
    /\ \E t \in Tasks \ {1} : taskPc[t] = "running"

\* C31: a shutdown function that fails does not affect its siblings: the
\* shutdown context stays live after the failure while the timeout runs,
\* every function that completed before the timeout contributes exactly its
\* own return value, and nobody contributes a cancellation error.
C31_SiblingsIsolated ==
    /\ (waitPc = "groupWait" /\ sdTimer > 0 /\ sgErrs # Nil) => sdCtx = "active"
    /\ \A f \in Funcs :
           (wrapPc[f] = "done" /\ fnWhen[f] = "before") => wrapRes[f] = ChanErr(f)
    /\ \A f \in Tasks :
           Canceled(f) \notin (Leaves(sgErrs) \cup Leaves(waitResult))

\* One shutdown function has failed and its error is collected; its sibling
\* returned nil afterwards, before the timeout, and contributed nothing.
C31_Witness ==
    \E f, g \in Funcs :
        /\ f # g
        /\ sgErrs = <<DownErr(f)>>
        /\ wrapPc[g] = "done"
        /\ fnWhen[g] = "before"
        /\ ch[g] = "nil"
        /\ wrapRes[g] = Nil

\* C32: with no shutdown function registered the shutdown phase is skipped:
\* no shutdown context or timer is ever made and no wrapper started, and
\* what Wait returns is exactly the aggregate of the task errors.
C32_ShutdownSkipped ==
    /\ Funcs = {} =>
           /\ sdCtx = "none"
           /\ sdTimer = -1
           /\ \A f \in Tasks : wrapPc[f] = "none" /\ fnPc[f] = "none"
    /\ (waitPc = "returned" /\ Funcs = {}) =>
           /\ waitResult = errs
           /\ \A t \in Registered : taskPc[t] = "done"

\* Wait has returned the error of the one task that failed out of two, with
\* no shutdown function registered.
C32_Witness ==
    /\ waitPc = "returned"
    /\ Funcs = {}
    /\ sdCtx = "none"
    /\ \E t, u \in Registered :
           taskRes[t] = "E" /\ taskRes[u] = "nil" /\ waitResult = <<TaskErr(t)>>

\* C33, as stated: before cancel is called Err() is nil; from the call of
\* cancel until the period has elapsed Done is not closed and Err() is
\* ErrContextCancelled; cancel returns only when the period has elapsed, and
\* from then on Done is closed and Err() is the cancellation error of the
\* embedded context.
C33_GracefulPhases ==
    /\ gPc = "idle" => gracefulErr = "nil"
    /\ gPc = "waiting" => (~gracefulDone /\ gracefulErr = "ErrContextCancelled")
    /\ gPc = "returned" =>
           (gWaited >= gPeriod /\ gracefulDone /\ gracefulErr = "Canceled")

\* C33, amended: the first two phases are those of a context whose parent is
\* not done; when the parent is done, Done is closed and Err() is the
\* cancellation error of the embedded context at once, whatever cancel did.
C33_GracefulPhasesLiveParent ==
    /\ (gPc = "idle" /\ ~gParentDone) => gracefulErr = "nil"
    /\ (gPc = "waiting" /\ ~gParentDone) =>
           (~gracefulDone /\ gracefulErr = "ErrContextCancelled")
    /\ gPc = "returned" =>
           (gWaited >= gPeriod /\ gracefulDone /\ gracefulErr = "Canceled")
    /\ gParentDone => (gracefulDone /\ gracefulErr = "Canceled")

\* cancel was called and part of the period has passed: Done is open and
\* Err() is ErrContextCancelled.
C33_Witness ==
    /\ gPc = "waiting"
    /\ ~gParentDone
    /\ gWaited > 0
    /\ gTimer > 0
    /\ ~gracefulDone
    /\ gracefulErr = "ErrContextCancelled"

\* C34: in a Squad made by NewSquad, once the tasks have returned the
\* background listener goes through the shutdown and Wait returns, also
\* when the context given to NewSquad is never canceled.
C34_WaitReturns ==
    ( /\ waitPc = "wgWait"
      /\ \A t \in Tasks : taskPc[t] = "done" )
        ~> (waitPc = "returned" /\ lsPc = "done")

\* C35: every shutdown function that was started contributes exactly one
\* outcome to the result of the shutdown, its own return value or the
\* deadline-exceeded condition: never both and never none, also when it
\* returns at the very moment the timeout expires.
C35_OneOutcome ==
    /\ \A f \in Funcs :
           Count(sgErrs, DownErr(f)) + Count(sgErrs, DeadlineExceeded(f)) <= 1
    /\ waitPc = "returned" =>
           \A f \in Funcs :
               invoked[f] = 1 =>
                   /\ wrapPc[f] = "done"
                   /\ \/ wrapRes[f] = <<DeadlineExceeded(f)>>
                      \/ ch[f] # "empty" /\ wrapRes[f] = ChanErr(f)
                   /\ Count(waitResult, DownErr(f)) + Count(waitResult, DeadlineExceeded(f))
                          = Len(wrapRes[f])
                   /\ Len(wrapRes[f]) <= 1

\* Wait has returned the deadline-exceeded condition alone for a function
\* that failed at the very moment the timeout expired.
C35_Witness ==
    /\ waitPc = "returned"
    /\ \E f \in Funcs :
           /\ fnWhen[f] = "at"
           /\ ch[f] = "E"
           /\ wrapRes[f] = <<DeadlineExceeded(f)>>
           /\ Count(waitResult, DownErr(f)) = 0

\* C36: the handler terminates the process only after two signals at least
\* were sent to it, and only from its second select, after it has called
\* cancel on the root context for the first one: one signal alone never
\* makes the handler exit.
C36_ExitNeedsTwoSignals ==
    /\ [](proc = "exit1" => (sigCount >= 2 /\ ctxDone))
    /\ [][(proc # "exit1" /\ proc' = "exit1") =>
              (hPc = "waiting" /\ ctxDone /\ sigCount >= 2)]_vars

\* The handler has terminated the process after exactly two signals, the
\* root context canceled.
C36_Witness ==
    /\ proc = "exit1"
    /\ sigCount = 2
    /\ ctxDone
    /\ hPc = "waiting"

\* C37: no second signal is lost: when two signals were delivered while the
\* handler's subscription was installed and before its timer has run out,
\* the process is terminated (or the handler has returned because the root
\* context was done without a signal), also when both signals arrived
\* before the handler took the first.
C37_SecondSignalNotLost ==
    ( /\ proc = "running"
      /\ sigCount >= 2
      /\ hPc = "armed" \/ (hPc = "waiting" /\ hTimer > 0) )
        ~> (proc # "running" \/ hPc = "returned")

\* C38. The delayed context keeps the contract between Err and Done: Err()
\* is nil as long as its own done event has not fired (the channel of Done()
\* is open and no receiver has been released), and non-nil once it has.
C38_ErrDoneContract ==
    /\ (dCh # "closed" /\ \A r \in Receivers : rcvPc[r] # "released") =>
           delayedErr = "nil"
    /\ (dCh = "closed" \/ \E r \in Receivers : rcvPc[r] = "released") =>
           delayedErr # "nil"

\* C39. The collection of shutdown functions never holds a nil function,
\* whatever combination of WithCloses, WithSubsystem and RunGracefully has
\* built it, and the shutdown never calls a nil function.
C39_NoNilFunction ==
    /\ NilFn \notin Funcs
    /\ proc # "crashed"

====
